---- MODULE Spec2Model ----
\* Safe journal mutation engine of hledger-mcp: staged single-file operations
\* (append, close, remove-entry, replace-entry, import) and the bulk rewrite over
\* a mirrored include graph, each followed by the external check and the commit.
EXTENDS Integers, Sequences, FiniteSets, TLC

\* ------------------------------------------------------------------ bounds
\* number of requests served one after the other
MaxOps == 1
\* largest line number a request may name
MaxLine == 2
\* characters in a file handed to the editor on its own
MaxLen == 3
\* include directives (expanded) in the journals handed to the mirror walk
MaxEdges == 3
\* web instances started
MaxWeb == 1
\* calls of stopInstance
MaxStops == 2

\* ------------------------------------------------------------------ text
\* A text is a sequence of characters. LF and CR are the two newline bytes, SP a
\* space; INC and GONE each stand for the text of one include directive
\* ("!include inc.journal", "!include gone.journal").
LF == "LF"
CR == "CR"
SP == "SP"
INC == "#inc"
GONE == "#gone"

Last(s) == s[Len(s)]
Front(s) == SubSeq(s, 1, Len(s) - 1)

\* String.prototype.endsWith("\n")
EndsWithLF(t) == Len(t) > 0 /\ Last(t) = LF

\* JS whitespace as seen by trim()/trimEnd() and \s
IsSpace(c) == c \in {SP, LF, CR}

RECURSIVE Join(_)
Join(segs) == IF segs = <<>> THEN <<>> ELSE Head(segs) \o Join(Tail(segs))

RECURSIVE SplitFrom(_, _)
\* the loop of splitIntoSegments: cur is content.slice(start, index)
SplitFrom(rest, cur) ==
  IF rest = <<>> THEN (IF cur = <<>> THEN <<>> ELSE <<cur>>)
  ELSE IF Head(rest) = LF THEN <<Append(cur, LF)>> \o SplitFrom(Tail(rest), <<>>)
  ELSE SplitFrom(Tail(rest), Append(cur, Head(rest)))

splitIntoSegments(content) ==
  LET segs == SplitFrom(content, <<>>) IN IF segs = <<>> THEN << <<>> >> ELSE segs

RECURSIVE normalizeNewlines(_)
\* value.replace(/\r\n/g, "\n")
normalizeNewlines(t) ==
  IF t = <<>> THEN <<>>
  ELSE IF Len(t) >= 2 /\ t[1] = CR /\ t[2] = LF
       THEN <<LF>> \o normalizeNewlines(SubSeq(t, 3, Len(t)))
       ELSE <<Head(t)>> \o normalizeNewlines(Tail(t))

ensureTrailingNewline(t) == IF EndsWithLF(t) THEN t ELSE Append(t, LF)

isBlank(seg) == \A i \in 1..Len(seg) : IsSpace(seg[i])

normalizeEntryForComparison(t) ==
  LET n == normalizeNewlines(t) IN IF EndsWithLF(n) THEN n ELSE Append(n, LF)

RECURSIVE trimEnd(_)
trimEnd(t) == IF t # <<>> /\ IsSpace(Last(t)) THEN trimEnd(Front(t)) ELSE t

RECURSIVE trimStart(_)
trimStart(t) == IF t # <<>> /\ IsSpace(Head(t)) THEN trimStart(Tail(t)) ELSE t

\* ---- JournalFileEditor: the editor's state is its segment array
\* mutant: the last line of the file is refused as the end of a range
assertRangeStrict(segs, startLine, endLine) ==
  ~(startLine < 1 \/ endLine < startLine) /\ ~(endLine >= Len(segs))

assertRange(segs, startLine, endLine) ==
  ~(startLine < 1 \/ endLine < startLine) /\ ~(endLine > Len(segs))

extract(segs, startLine, endLine) == Join(SubSeq(segs, startLine, endLine))

\* mutant: a following blank segment is removed whatever the flag says
removeAlwaysCollapse(segs, startLine, endLine, collapseFollowingBlank) ==
  LET removedSegments == SubSeq(segs, startLine, endLine)
      hasFollowing == endLine + 1 <= Len(segs) /\ segs[endLine + 1] # <<>>
      collapse == hasFollowing /\ isBlank(segs[endLine + 1])
      count == Len(removedSegments) + (IF collapse THEN 1 ELSE 0)
  IN [segments |-> SubSeq(segs, 1, startLine - 1)
                     \o SubSeq(segs, startLine + count, Len(segs)),
      removedText |-> Join(removedSegments),
      trailingBlankRemoved |-> collapse]

\* remove: [segments, removedText, trailingBlankRemoved]
remove(segs, startLine, endLine, collapseFollowingBlank) ==
  LET removedSegments == SubSeq(segs, startLine, endLine)
      hasFollowing == endLine + 1 <= Len(segs) /\ segs[endLine + 1] # <<>>
      collapse == collapseFollowingBlank /\ hasFollowing /\ isBlank(segs[endLine + 1])
      count == Len(removedSegments) + (IF collapse THEN 1 ELSE 0)
  IN [segments |-> SubSeq(segs, 1, startLine - 1)
                     \o SubSeq(segs, startLine + count, Len(segs)),
      removedText |-> Join(removedSegments),
      trailingBlankRemoved |-> collapse]

\* mutant: the replacement is spliced in as one segment, not re-split
replaceUnsplit(segs, startLine, endLine, replacement) ==
  LET normalizedReplacement == ensureTrailingNewline(normalizeNewlines(replacement))
  IN [segments |-> SubSeq(segs, 1, startLine - 1) \o <<normalizedReplacement>>
                     \o SubSeq(segs, endLine + 1, Len(segs)),
      removedText |-> Join(SubSeq(segs, startLine, endLine)),
      insertedText |-> normalizedReplacement]

\* replace: [segments, removedText, insertedText]
replace(segs, startLine, endLine, replacement) ==
  LET normalizedReplacement == ensureTrailingNewline(normalizeNewlines(replacement))
      replacementSegments == splitIntoSegments(normalizedReplacement)
  IN [segments |-> SubSeq(segs, 1, startLine - 1) \o replacementSegments
                     \o SubSeq(segs, endLine + 1, Len(segs)),
      removedText |-> Join(SubSeq(segs, startLine, endLine)),
      insertedText |-> normalizedReplacement]

\* ---- String.prototype.split("\n") and Array.prototype.join("\n")
RECURSIVE SplitLinesFrom(_, _)
SplitLinesFrom(rest, cur) ==
  IF rest = <<>> THEN <<cur>>
  ELSE IF Head(rest) = LF THEN <<cur>> \o SplitLinesFrom(Tail(rest), <<>>)
  ELSE SplitLinesFrom(Tail(rest), Append(cur, Head(rest)))

SplitLines(t) == SplitLinesFrom(t, <<>>)

RECURSIVE JoinLines(_)
JoinLines(lines) ==
  IF lines = <<>> THEN <<>>
  ELSE IF Len(lines) = 1 THEN lines[1]
  ELSE lines[1] \o <<LF>> \o JoinLines(Tail(lines))

\* ------------------------------------------------------------------ files
\* the journal directory: main is the configured journal, inc a second journal
Paths == {"main", "inc"}
Absent == [exists |-> FALSE, data |-> <<>>]
File(t) == [exists |-> TRUE, data |-> t]
Reqs == (1..MaxOps) \cup {1, 2}

\* contents the main journal may start with (entry a, blank line, entry b; a
\* file without final newline; a file including inc; a file including a
\* journal that does not exist)
MainContents ==
  { <<>>, <<"a", LF, LF, "b", LF>>, <<"a", LF, "b">>,
    <<INC, LF, "a", LF>>, <<GONE, LF, "a", LF>> }
IncContent == <<"b", LF>>

\* request inputs
AddTexts == { <<"c">>, <<"c", LF, LF>> }
EntryTexts == { <<"a", CR, LF>>, <<"b">> }
ReplTexts == { <<"c">>, <<"c", CR, LF>> }
NoText == <<>>

VARIABLES
  readOnly,   \* tools constructed with readOnly
  skipBackup, \* tools constructed with skipBackup
  journal,    \* [Paths -> file]: the original journal files
  backups,    \* set of [of, ts, data]: files <of>.bak-<ts>
  tmp,        \* [Reqs -> file]: the staged copy <base>.tmp-<token> of each request
  mirror,     \* [Reqs -> [exists, files]]: the rewrite mirror directory of each request
  pc,         \* [Reqs -> label]: where each request stands
  inp,        \* [Reqs -> input]: the validated input of each request
  loc,        \* [Reqs -> locals]: the workspace and locals of run()
  result,     \* [Reqs -> response]: what the caller got
  pre,        \* history: the journal files when the request began, then when it staged its copy
  chk,        \* history: "none", "ok" or "fail": outcome of the external check
  staged,     \* history: createJournalWorkspace returned / mkdtemp made the mirror
  origin,     \* history: the journal files when the server started
  calc,       \* one call of a pure function of the editor or the patcher
  instances,  \* WebProcessRegistry.instances: the ids in the Map
  child,      \* [Webs -> child process and the record registered for it]
  stops       \* [Stops -> one call of stopInstance: its promise, listeners, timer]

server == <<readOnly, skipBackup, journal, backups, tmp, mirror, pc, inp, loc,
            result, pre, chk, staged, origin>>
web == <<instances, child, stops>>
vars == <<server, calc, web>>

NoInput == [kind |-> "none", dryRun |-> FALSE, target |-> "main", text |-> NoText,
            expected |-> NoText, startLine |-> 1, endLine |-> 1, collapse |-> TRUE]
NoLocals == [journalExists |-> FALSE, err |-> "", why |-> "", out |-> NoText,
             trailing |-> FALSE, bks |-> {}, stack |-> <<>>, visited |-> {},
             diff |-> <<>>, changed |-> <<>>]
NoResult == [status |-> "none", error |-> "", why |-> "", applied |-> FALSE,
             bks |-> {}, text |-> NoText]
NoMirror == [exists |-> FALSE, files |-> [f \in Paths |-> Absent]]
\* web instances and stopInstance calls
Webs == 1..MaxWeb
Stops == 1..MaxStops
NoChild == [spawned |-> FALSE, registered |-> FALSE, exited |-> FALSE, errored |-> FALSE,
            killed |-> FALSE, regExit |-> FALSE, regError |-> FALSE,
            requestedAllow |-> "none", allow |-> "none", args |-> "none",
            dropped |-> "no"]
NoStop == [inst |-> 0, promise |-> "none", by |-> "none", settled |-> FALSE,
           onExit |-> FALSE, onError |-> FALSE, timer |-> FALSE, calls |-> 0,
           first |-> "none"]
NoCalc == [fn |-> "none", phase |-> "in", content |-> <<>>, diff |-> <<>>,
           new |-> <<>>, text |-> <<>>, startLine |-> 0, endLine |-> 0,
           collapse |-> FALSE, graph |-> {}, out |-> <<>>]

\* the server after start-up: no request yet
ServerInit ==
  /\ readOnly \in BOOLEAN
  /\ skipBackup \in BOOLEAN
  /\ \E m \in {Absent} \cup {File(t) : t \in MainContents} :
       journal = [f \in Paths |-> IF f = "main" THEN m ELSE File(IncContent)]
  /\ backups = {}
  /\ tmp = [r \in Reqs |-> Absent]
  /\ mirror = [r \in Reqs |-> NoMirror]
  /\ pc = [r \in Reqs |-> "idle"]
  /\ inp = [r \in Reqs |-> NoInput]
  /\ loc = [r \in Reqs |-> NoLocals]
  /\ result = [r \in Reqs |-> NoResult]
  /\ pre = [r \in Reqs |-> [f \in Paths |-> Absent]]
  /\ chk = [r \in Reqs |-> "none"]
  /\ staged = [r \in Reqs |-> FALSE]
  /\ origin = journal
  /\ instances = {}
  /\ child = [i \in Webs |-> NoChild]
  /\ stops = [c \in Stops |-> NoStop]

Init == ServerInit /\ calc = NoCalc

\* a client that awaits each response before its next request: MaxOps
\* requests are served one at a time, in order
CanBegin(r) ==
  /\ r \in 1..MaxOps
  /\ pc[r] = "idle"
  /\ \A q \in Reqs : q < r => pc[q] = "done"

\* run() returned or threw to BaseTool.execute, which formats the response
Finish(r, status, error, why, applied, bks, text) ==
  /\ pc' = [pc EXCEPT ![r] = "done"]
  /\ result' = [result EXCEPT ![r] =
       [status |-> status, error |-> error, why |-> why, applied |-> applied,
        bks |-> bks, text |-> text]]
  /\ loc' = [loc EXCEPT ![r] = NoLocals]
  /\ inp' = inp
  /\ UNCHANGED <<calc, web>>

Throw(r, error, why) == Finish(r, "error", error, why, FALSE, {}, NoText)

\* a throw inside the try block of run(): the catch block runs next
ToCatch(r, error, why) ==
  /\ pc' = [pc EXCEPT ![r] = "catch"]
  /\ loc' = [loc EXCEPT ![r].err = error, ![r].why = why]
  /\ UNCHANGED <<result, inp, calc, web>>

Goto(r, label) == pc' = [pc EXCEPT ![r] = label] /\ UNCHANGED <<calc, web>>

\* operations whose commit and staging sit inside try/catch in run()
Guarded(kind) == kind \in {"remove", "replace", "import", "rewrite"}

\* the head of every run(): the read-only guard (ValidationError before
\* anything is staged), else the first await. The server keeps nothing of the
\* requests it answered before: their responses and histories are dropped here.
\* Requests still running keep their state.
Enter(r, refuse, input, label) ==
  /\ pc[r] = "idle"
  /\ pre' = [q \in Reqs |-> IF q = r THEN journal
                            ELSE IF pc[q] = "done" THEN [f \in Paths |-> Absent]
                            ELSE pre[q]]
  /\ chk' = [q \in Reqs |-> IF q # r /\ pc[q] # "done" THEN chk[q] ELSE "none"]
  /\ staged' = [q \in Reqs |-> IF q # r /\ pc[q] # "done" THEN staged[q] ELSE FALSE]
  /\ loc' = loc
  /\ inp' = [q \in Reqs |-> IF q = r THEN input
                            ELSE IF pc[q] = "done" THEN NoInput ELSE inp[q]]
  /\ IF refuse
     THEN /\ pc' = [pc EXCEPT ![r] = "done"]
          /\ result' = [q \in Reqs |-> IF q # r THEN NoResult ELSE
               [NoResult EXCEPT !.status = "error", !.error = "ValidationError",
                                !.why = "readonly"]]
     ELSE /\ pc' = [pc EXCEPT ![r] = label]
          /\ result' = [q \in Reqs |-> NoResult]
  /\ UNCHANGED <<readOnly, skipBackup, journal, backups, tmp, mirror, origin, calc, web>>

\* the head of run() for the client that awaits each response
Begin(r, refuse, input, label) == CanBegin(r) /\ Enter(r, refuse, input, label)

\* ------------------------------------------------------------------ add
\* AddTransactionTool.run up to the call of appendTransactionSafely
BeginAdd(r) ==
  \E text \in AddTexts, dry \in BOOLEAN :
    Begin(r, readOnly,
          [NoInput EXCEPT !.kind = "add", !.dryRun = dry, !.text = text],
          "stage")

\* createJournalWorkspace: mkdir, fileExists, copyFile or writeFile("")
Stage(r) ==
  /\ pc[r] = "stage"
  /\ \E io \in {"ok", "fail"} :
       IF io = "ok"
       THEN /\ tmp' = [tmp EXCEPT ![r] =
                 IF journal[inp[r].target].exists
                 THEN File(journal[inp[r].target].data) ELSE File(<<>>)]
            /\ loc' = [loc EXCEPT ![r].journalExists = journal[inp[r].target].exists]
            /\ staged' = [staged EXCEPT ![r] = TRUE]
            /\ pre' = [pre EXCEPT ![r] = journal]
            /\ Goto(r, CASE inp[r].kind \in {"add", "close"} -> "append"
                         [] inp[r].kind \in {"remove", "replace"} -> "edit"
                         [] OTHER -> "extimport")
            /\ UNCHANGED <<result, inp>>
       ELSE /\ Throw(r, "Error", "io")
            /\ UNCHANGED <<tmp, staged, pre>>
  /\ UNCHANGED <<readOnly, skipBackup, journal, backups, mirror, chk, origin>>

\* mutant: one newline separates the entry from any non-empty journal
determineSeparatorSingle(data) ==
  IF Len(data) = 0 THEN <<>> ELSE <<LF>>

\* determineSeparator on the staged copy
determineSeparator(data) ==
  IF Len(data) = 0 THEN <<>> ELSE IF Last(data) = LF THEN <<LF>> ELSE <<LF, LF>>

\* the entry appendTransactionSafely appends
AppendEntry(journalExists, data, transaction) ==
  (IF journalExists THEN determineSeparator(data) ELSE <<>>)
    \o trimEnd(transaction) \o <<LF>>

\* mutant: the entry is appended and committed without calling the check
AppendStagedUnchecked(r) ==
  /\ pc[r] = "append"
  /\ tmp' = [tmp EXCEPT ![r].data =
       @ \o AppendEntry(loc[r].journalExists, @, inp[r].text)]
  /\ loc' = [loc EXCEPT ![r].out = trimEnd(inp[r].text)]
  /\ Goto(r, IF loc[r].journalExists /\ ~skipBackup THEN "backup" ELSE "rename")
  /\ UNCHANGED <<result, inp>>
  /\ UNCHANGED <<readOnly, skipBackup, journal, backups, mirror, pre, chk, staged, origin>>

\* appendTransactionSafely: determineSeparator and appendFile (outside any try)
AppendStaged(r) ==
  /\ pc[r] = "append"
  /\ \E io \in {"ok", "fail"} :
       IF io = "ok"
       THEN /\ tmp' = [tmp EXCEPT ![r].data =
                 @ \o AppendEntry(loc[r].journalExists, @, inp[r].text)]
            /\ loc' = [loc EXCEPT ![r].out = trimEnd(inp[r].text)]
            /\ Goto(r, "check")
            /\ UNCHANGED <<result, inp>>
       ELSE /\ Throw(r, "Error", "io")
            /\ UNCHANGED tmp
  /\ UNCHANGED <<readOnly, skipBackup, journal, backups, mirror, pre, chk, staged, origin>>

\* where a successful check leads: the dry-run return, or finalize (backup
\* copy first when the journal existed and backups are kept)
AfterCheck(r) ==
  IF inp[r].dryRun THEN "dryreturn"
  ELSE IF inp[r].kind = "rewrite"
  THEN (IF loc[r].changed = <<>> THEN "rwfinish" ELSE "commit")
  ELSE IF loc[r].journalExists /\ ~skipBackup THEN "backup" ELSE "rename"

\* mutant: a failed check resolves like a passed one instead of rejecting
CheckIgnoringExit(r) ==
  /\ pc[r] = "check"
  /\ \E outcome \in {"ok", "exit", "timeout"} :
       /\ chk' = [chk EXCEPT ![r] = IF outcome = "ok" THEN "ok" ELSE "fail"]
       /\ Goto(r, AfterCheck(r))
       /\ UNCHANGED <<loc, result, inp>>
  /\ UNCHANGED <<readOnly, skipBackup, journal, backups, tmp, mirror, pre, staged, origin>>

\* HLedgerExecutor.execute("check", ["--file", staged copy]): resolves on exit
\* code 0, rejects on a non-zero exit, a spawn error or the timeout
Check(r) ==
  /\ pc[r] = "check"
  /\ \E outcome \in {"ok", "exit", "timeout"} :
       IF outcome = "ok"
       THEN /\ chk' = [chk EXCEPT ![r] = "ok"]
            /\ Goto(r, AfterCheck(r))
            /\ UNCHANGED <<loc, result, inp>>
       ELSE /\ chk' = [chk EXCEPT ![r] = "fail"]
            /\ ToCatch(r, IF outcome = "exit" THEN "HLedgerError" ELSE "TimeoutError",
                       "check")
  /\ UNCHANGED <<readOnly, skipBackup, journal, backups, tmp, mirror, pre, staged, origin>>

\* the dry-run branch: discard the staged copy (or the mirror) and return
DryReturn(r) ==
  /\ pc[r] = "dryreturn"
  /\ tmp' = [tmp EXCEPT ![r] = Absent]
  /\ mirror' = [mirror EXCEPT ![r] = NoMirror]
  /\ Finish(r, "ok", "", "", FALSE, {}, loc[r].out)
  /\ UNCHANGED <<readOnly, skipBackup, journal, backups, pre, chk, staged, origin>>

\* a throw in finalize: caught by run() of the entry tools, import and rewrite;
\* not caught in appendTransactionSafely
FinalizeThrow(r) ==
  IF Guarded(inp[r].kind) THEN ToCatch(r, "Error", "io") ELSE Throw(r, "Error", "io")

\* mutant: a failed backup copy is ignored and the rename goes ahead
BackupCopyBestEffort(r) ==
  /\ pc[r] = "backup"
  /\ \E io \in {"ok", "fail"} :
       IF io = "ok" /\ journal[inp[r].target].exists
       THEN /\ backups' = backups \cup
                 {[of |-> inp[r].target, ts |-> r, data |-> journal[inp[r].target].data]}
            /\ loc' = [loc EXCEPT ![r].bks = {[of |-> inp[r].target, ts |-> r]}]
       ELSE UNCHANGED <<backups, loc>>
  /\ Goto(r, "rename")
  /\ UNCHANGED <<result, inp>>
  /\ UNCHANGED <<readOnly, skipBackup, journal, tmp, mirror, pre, chk, staged, origin>>

\* mutant: the backup is copied from the staged file instead of the journal
BackupCopyOfStaged(r) ==
  /\ pc[r] = "backup"
  /\ \E io \in {"ok", "fail"} :
       IF io = "ok" /\ journal[inp[r].target].exists
       THEN /\ backups' = backups \cup
                 {[of |-> inp[r].target, ts |-> r, data |-> tmp[r].data]}
            /\ loc' = [loc EXCEPT ![r].bks = {[of |-> inp[r].target, ts |-> r]}]
            /\ Goto(r, "rename")
            /\ UNCHANGED <<result, inp>>
       ELSE /\ FinalizeThrow(r)
            /\ UNCHANGED backups
  /\ UNCHANGED <<readOnly, skipBackup, journal, tmp, mirror, pre, chk, staged, origin>>

\* finalizeJournalWorkspace, first await: copyFile(journalPath, backupPath)
BackupCopy(r) ==
  /\ pc[r] = "backup"
  /\ \E io \in {"ok", "fail"} :
       IF io = "ok" /\ journal[inp[r].target].exists
       THEN /\ backups' = backups \cup
                 {[of |-> inp[r].target, ts |-> r, data |-> journal[inp[r].target].data]}
            /\ loc' = [loc EXCEPT ![r].bks = {[of |-> inp[r].target, ts |-> r]}]
            /\ Goto(r, "rename")
            /\ UNCHANGED <<result, inp>>
       ELSE /\ FinalizeThrow(r)
            /\ UNCHANGED backups
  /\ UNCHANGED <<readOnly, skipBackup, journal, tmp, mirror, pre, chk, staged, origin>>

\* mutant: the commit of an append re-applies the entry to the journal as it
\* is at commit time instead of renaming the staged copy over it
RenameRebased(r) ==
  /\ pc[r] = "rename"
  /\ \E io \in {"ok", "fail"} :
       IF io = "ok" /\ tmp[r].exists
       THEN /\ journal' = [journal EXCEPT ![inp[r].target] =
                 IF inp[r].kind = "add" /\ @.exists
                 THEN File(@.data \o AppendEntry(TRUE, @.data, inp[r].text))
                 ELSE tmp[r]]
            /\ tmp' = [tmp EXCEPT ![r] = Absent]
            /\ Finish(r, "ok", "", "", TRUE, loc[r].bks, loc[r].out)
       ELSE /\ FinalizeThrow(r)
            /\ UNCHANGED <<journal, tmp>>
  /\ UNCHANGED <<readOnly, skipBackup, backups, mirror, pre, chk, staged, origin>>

\* finalizeJournalWorkspace, second await: rename(tempPath, journalPath); the
\* entry tools then call cleanupJournalWorkspace on the renamed path (a no-op)
Rename(r) ==
  /\ pc[r] = "rename"
  /\ \E io \in {"ok", "fail"} :
       IF io = "ok" /\ tmp[r].exists
       THEN /\ journal' = [journal EXCEPT ![inp[r].target] = tmp[r]]
            /\ tmp' = [tmp EXCEPT ![r] = Absent]
            /\ Finish(r, "ok", "", "", TRUE, loc[r].bks, loc[r].out)
       ELSE /\ FinalizeThrow(r)
            /\ UNCHANGED <<journal, tmp>>
  /\ UNCHANGED <<readOnly, skipBackup, backups, mirror, pre, chk, staged, origin>>

\* the catch block of run() (and of appendTransactionSafely around the check):
\* cleanupJournalWorkspace / cleanupRewriteWorkspace, then rethrow
\* (fs.rm with force: true; the removal itself is taken to succeed)
Catch(r) ==
  /\ pc[r] = "catch"
  /\ tmp' = [tmp EXCEPT ![r] = Absent]
  /\ mirror' = [mirror EXCEPT ![r] = NoMirror]
  /\ Throw(r, loc[r].err, loc[r].why)
  /\ UNCHANGED <<readOnly, skipBackup, journal, backups, pre, chk, staged, origin>>

\* ------------------------------------------------------------------ close
\* CloseTool.run: the read-only guard; the external close command comes next
BeginClose(r) ==
  \E dry \in BOOLEAN :
    Begin(r, readOnly /\ ~dry,
          [NoInput EXCEPT !.kind = "close", !.dryRun = dry],
          "extclose")

\* HLedgerExecutor.execute("close", args) and what run() does with its output:
\* return on dry run or on empty output, else call appendTransactionSafely
ExtClose(r) ==
  /\ pc[r] = "extclose"
  /\ \E generated \in {<<>>, <<"c", LF>>} \cup {<<"fail">>} :
       IF generated = <<"fail">>
       THEN Throw(r, "HLedgerError", "close")
       ELSE IF inp[r].dryRun \/ trimEnd(generated) = <<>>
       THEN Finish(r, "ok", "", "", FALSE, {}, trimEnd(generated))
       ELSE /\ inp' = [inp EXCEPT ![r].text = trimEnd(generated)]
            /\ Goto(r, "stage")
            /\ UNCHANGED <<loc, result>>
  /\ UNCHANGED <<readOnly, skipBackup, journal, backups, tmp, mirror, pre, chk, staged, origin>>

\* ------------------------------------------------------------------ remove / replace
\* RemoveEntryTool.run up to createJournalWorkspace
BeginRemove(r) ==
  \E dry \in BOOLEAN, expected \in EntryTexts, collapse \in BOOLEAN,
     s \in 1..MaxLine, e \in 1..MaxLine :
    Begin(r, readOnly /\ ~dry,
          [NoInput EXCEPT !.kind = "remove", !.dryRun = dry, !.expected = expected,
             !.collapse = collapse, !.startLine = s, !.endLine = e],
          "stage")

\* ReplaceEntryTool.run up to createJournalWorkspace
BeginReplace(r) ==
  \E dry \in BOOLEAN, expected \in EntryTexts, replacement \in ReplTexts,
     s \in 1..MaxLine, e \in 1..MaxLine :
    Begin(r, readOnly /\ ~dry,
          [NoInput EXCEPT !.kind = "replace", !.dryRun = dry, !.expected = expected,
             !.text = replacement, !.startLine = s, !.endLine = e],
          "stage")

\* the comparison both entry tools make before mutating
EntryMatches(segs, startLine, endLine, expected) ==
  normalizeEntryForComparison(expected)
    = normalizeEntryForComparison(extract(segs, startLine, endLine))

\* the editor call of each tool: [segments, out, trailing]
EditorApply(i, segs) ==
  IF i.kind = "remove"
  THEN LET res == remove(segs, i.startLine, i.endLine, i.collapse)
       IN [segments |-> res.segments, out |-> res.removedText,
           trailing |-> res.trailingBlankRemoved]
  ELSE LET res == replace(segs, i.startLine, i.endLine, i.text)
       IN [segments |-> res.segments, out |-> res.insertedText, trailing |-> FALSE]

\* mutant: the entry tools mutate the staged copy without comparing the
\* located text against the expected text
EditStagedUnchecked(r) ==
  /\ pc[r] = "edit"
  /\ LET segs == splitIntoSegments(tmp[r].data)
         i == inp[r]
     IN \E io \in {"ok", "readfail", "writefail"} :
          IF io = "readfail" THEN ToCatch(r, "Error", "io") /\ tmp' = tmp
          ELSE IF ~assertRange(segs, i.startLine, i.endLine)
          THEN ToCatch(r, "ValidationError", "range") /\ tmp' = tmp
          ELSE IF io = "writefail" THEN ToCatch(r, "Error", "io") /\ tmp' = tmp
          ELSE LET ed == EditorApply(i, segs)
               IN /\ tmp' = [tmp EXCEPT ![r].data = Join(ed.segments)]
                  /\ loc' = [loc EXCEPT ![r].out = ed.out, ![r].trailing = ed.trailing]
                  /\ Goto(r, "check")
                  /\ UNCHANGED <<result, inp>>
  /\ UNCHANGED <<readOnly, skipBackup, journal, backups, mirror, pre, chk, staged, origin>>

\* the try block of the entry tools up to the check: readFile(tempPath), the
\* range and text comparison, the editor call, writeFile(tempPath)
EditStaged(r) ==
  /\ pc[r] = "edit"
  /\ LET segs == splitIntoSegments(tmp[r].data)
         i == inp[r]
     IN \E io \in {"ok", "readfail", "writefail"} :
          IF io = "readfail" THEN ToCatch(r, "Error", "io") /\ tmp' = tmp
          ELSE IF ~assertRange(segs, i.startLine, i.endLine)
          THEN ToCatch(r, "ValidationError", "range") /\ tmp' = tmp
          ELSE IF ~EntryMatches(segs, i.startLine, i.endLine, i.expected)
          THEN ToCatch(r, "ValidationError", "drift") /\ tmp' = tmp
          ELSE IF io = "writefail" THEN ToCatch(r, "Error", "io") /\ tmp' = tmp
          ELSE LET ed == EditorApply(i, segs)
               IN /\ tmp' = [tmp EXCEPT ![r].data = Join(ed.segments)]
                  /\ loc' = [loc EXCEPT ![r].out = ed.out, ![r].trailing = ed.trailing]
                  /\ Goto(r, "check")
                  /\ UNCHANGED <<result, inp>>
  /\ UNCHANGED <<readOnly, skipBackup, journal, backups, mirror, pre, chk, staged, origin>>

\* ------------------------------------------------------------------ import
\* mutant: the import tool stages and commits in read-only mode
BeginImportUnguarded(r) ==
  \E dry \in BOOLEAN :
    Begin(r, FALSE,
          [NoInput EXCEPT !.kind = "import", !.dryRun = dry],
          "stage")

\* ImportTransactionsTool.run up to createJournalWorkspace
BeginImport(r) ==
  \E dry \in BOOLEAN :
    Begin(r, readOnly /\ ~dry,
          [NoInput EXCEPT !.kind = "import", !.dryRun = dry],
          "stage")

\* HLedgerExecutor.execute("import", ["--file", tempPath, ...]): the external
\* command appends the imported transactions to the staged copy (nothing with
\* --dry-run); run() returns on dry run, else goes on to the check
ExtImport(r) ==
  /\ pc[r] = "extimport"
  /\ \E imported \in {<<>>, <<"c", LF>>} \cup {<<"fail">>} :
       IF imported = <<"fail">>
       THEN ToCatch(r, "HLedgerError", "import") /\ tmp' = tmp
       ELSE /\ tmp' = [tmp EXCEPT ![r].data = IF inp[r].dryRun THEN @ ELSE @ \o imported]
            /\ loc' = [loc EXCEPT ![r].out = imported]
            /\ Goto(r, IF inp[r].dryRun THEN "dryreturn" ELSE "check")
            /\ UNCHANGED <<result, inp>>
  /\ UNCHANGED <<readOnly, skipBackup, journal, backups, mirror, pre, chk, staged, origin>>

\* ------------------------------------------------------------------ rewrite
\* RewriteTransactionsTool.run up to createRewriteWorkspace
BeginRewrite(r) ==
  \E dry \in BOOLEAN :
    Begin(r, readOnly /\ ~dry,
          [NoInput EXCEPT !.kind = "rewrite", !.dryRun = dry],
          "mkmirror")

\* createRewriteWorkspace before copyWithIncludes: realpath(target), mkdtemp
MkMirror(r) ==
  /\ pc[r] = "mkmirror"
  /\ \E io \in {"ok", "fail"} :
       IF io = "ok" /\ journal[inp[r].target].exists
       THEN /\ mirror' = [mirror EXCEPT ![r] = [NoMirror EXCEPT !.exists = TRUE]]
            /\ staged' = [staged EXCEPT ![r] = TRUE]
            /\ loc' = [loc EXCEPT ![r].stack = <<inp[r].target>>]
            /\ Goto(r, "copy")
            /\ UNCHANGED <<result, inp>>
       ELSE /\ Throw(r, "Error", "io")
            /\ UNCHANGED <<mirror, staged>>
  /\ UNCHANGED <<readOnly, skipBackup, journal, backups, tmp, pre, chk, origin>>

\* the journal an include directive character names
DirectivePath(c) == IF c = INC THEN "inc" ELSE "gone"

RECURSIVE TargetsOf(_)
\* the targets of the lines matching /^\s*!include\s+(.+)$/, in order; a
\* directive followed by more text on its line names no existing journal
TargetsOf(lines) ==
  IF lines = <<>> THEN <<>>
  ELSE LET stripped == trimStart(Head(lines))
       IN (IF stripped # <<>> /\ stripped[1] \in {INC, GONE}
           THEN <<IF trimEnd(Tail(stripped)) = <<>>
                  THEN DirectivePath(stripped[1]) ELSE "gone">>
           ELSE <<>>) \o TargetsOf(Tail(lines))

IncludeTargets(content) == TargetsOf(SplitLines(content))

\* one call of copyWithIncludes (the recursion is the stack): realpath, the
\* visited set, copyFile into the mirror, the scan for include directives.
\* createRewriteWorkspace runs outside the try block of run().
copyWithIncludes(r) ==
  /\ pc[r] = "copy"
  /\ LET f == Head(loc[r].stack)
         rest == Tail(loc[r].stack)
     IN \E io \in {"ok", "fail"} :
          IF f \notin Paths \/ ~journal[f].exists \/ (io = "fail" /\ f \notin loc[r].visited)
          THEN Throw(r, "Error", "io") /\ mirror' = mirror
          ELSE LET seen == f \in loc[r].visited
                   stack == IF seen THEN rest ELSE IncludeTargets(journal[f].data) \o rest
               IN /\ mirror' = IF seen THEN mirror
                               ELSE [mirror EXCEPT ![r].files[f] = journal[f]]
                  /\ loc' = [loc EXCEPT ![r].stack = stack,
                                        ![r].visited = @ \cup {f}]
                  /\ Goto(r, IF stack = <<>> THEN "extrewrite" ELSE "copy")
                  /\ UNCHANGED <<result, inp>>
  /\ UNCHANGED <<readOnly, skipBackup, journal, backups, tmp, pre, chk, staged, origin>>

\* ---- paths are sequences of path characters; the mirror directory mkdtemp
\* made for request r, and the copy of journal name in it
WorkspaceRoot(r) == <<"/", "ws", r>>
MirrorPath(r, name) == WorkspaceRoot(r) \o <<"/", name>>

\* String.prototype.startsWith
StartsWith(path, prefix) ==
  Len(path) >= Len(prefix) /\ SubSeq(path, 1, Len(prefix)) = prefix

\* the journal whose mirror copy a path names ("none": no file of a mirror)
MirrorFileOf(path) ==
  IF Len(path) = 5 /\ path[2] = "ws" /\ path[4] = "/" THEN path[5] ELSE "none"

\* ---- unified diff: a diff is a sequence of lines, each classified by how it
\* starts: "---" and "+++" headers (with the path named), "@@" hunk headers
\* (with oldStart), " ", "+", "-" body lines, "x" anything else.
DLine(t, path, start, c) ==
  [t |-> t, path |-> path, start |-> start, c |-> c]

\* the lines of a mirror file as applyPatchesToWorkspace splits them
MirrorLines(content) ==
  LET l0 == IF EndsWithLF(content) THEN SplitLines(Front(content))
            ELSE SplitLines(content)
  IN IF Len(l0) = 1 /\ l0[1] = <<>> THEN <<>> ELSE l0

\* a diff of one file that adds line c after its first line; firstLine is the
\* context the diff expects there
FileDiff(path, lines, firstLine) ==
  << DLine("---", path, 0, <<>>), DLine("+++", path, 0, <<>>) >>
  \o (IF lines = <<>>
      THEN << DLine("@@", <<>>, 0, <<>>), DLine("+", <<>>, 0, <<"c">>) >>
      ELSE << DLine("@@", <<>>, 1, <<>>), DLine(" ", <<>>, 0, firstLine),
              DLine("+", <<>>, 0, <<"c">>), DLine("x", <<>>, 0, <<>>) >>)

GoodDiff(r, name) ==
  LET lines == MirrorLines(mirror[r].files[name].data)
  IN FileDiff(MirrorPath(r, name), lines, IF lines = <<>> THEN <<>> ELSE lines[1])

StaleDiff(r, name) ==
  FileDiff(MirrorPath(r, name), << <<"z">> >>, <<"z">>)

\* what the external rewrite command may print
Diffs(r) ==
  { <<>>, GoodDiff(r, "main"), GoodDiff(r, "main") \o GoodDiff(r, "inc"),
    GoodDiff(r, "main") \o StaleDiff(r, "inc"), StaleDiff(r, "main"),
    FileDiff(<<"/", "data", 0, "/", "main">>, <<>>, <<>>) }

RECURSIVE ParseFrom(_, _, _, _, _)
\* the loop of parseUnifiedDiff: cp is the index of currentPatch in patches
\* (0: undefined), ch the <<patch, hunk>> indices of currentHunk
ParseFrom(lines, root, patches, cp, ch) ==
  IF lines = <<>> THEN [ok |-> TRUE, patches |-> patches]
  ELSE LET line == Head(lines)
           rest == Tail(lines)
       IN IF line.t = "---" THEN ParseFrom(rest, root, patches, 0, <<0, 0>>)
          ELSE IF line.t = "+++"
          THEN IF ~StartsWith(line.path, root) THEN [ok |-> FALSE, patches |-> <<>>]
               ELSE ParseFrom(rest, root,
                      Append(patches, [filePath |-> line.path, hunks |-> <<>>]),
                      Len(patches) + 1, ch)
          ELSE IF line.t = "@@"
          THEN IF cp = 0 THEN ParseFrom(rest, root, patches, cp, ch)
               ELSE ParseFrom(rest, root,
                      [patches EXCEPT ![cp].hunks =
                         Append(@, [oldStart |-> line.start, lines |-> <<>>])],
                      cp, <<cp, Len(patches[cp].hunks) + 1>>)
          ELSE IF ch = <<0, 0>> \/ line.t = "x"
          THEN ParseFrom(rest, root, patches, cp, ch)
          ELSE ParseFrom(rest, root,
                 [patches EXCEPT ![ch[1]].hunks[ch[2]].lines =
                    Append(@, [type |-> CASE line.t = " " -> "context"
                                          [] line.t = "+" -> "add"
                                          [] OTHER -> "remove",
                               content |-> line.c])],
                 cp, ch)

parseUnifiedDiff(diff, workspaceRoot) == ParseFrom(diff, workspaceRoot, <<>>, 0, <<0, 0>>)

RECURSIVE HunkFrom(_, _, _, _)
\* the loop of applyHunk over hunk.lines; pointer counts the lines consumed
HunkFrom(changes, lines, pointer, res) ==
  IF changes = <<>>
  THEN [ok |-> TRUE, lines |-> res \o SubSeq(lines, pointer + 1, Len(lines))]
  ELSE LET change == Head(changes)
           currentLine == IF pointer + 1 <= Len(lines) THEN lines[pointer + 1] ELSE <<>>
       IN IF change.type = "add"
          THEN HunkFrom(Tail(changes), lines, pointer, Append(res, change.content))
          ELSE IF currentLine # change.content THEN [ok |-> FALSE, lines |-> lines]
          ELSE HunkFrom(Tail(changes), lines, pointer + 1,
                        IF change.type = "context" THEN Append(res, currentLine) ELSE res)

applyHunk(lines, hunk) ==
  LET startIndex == IF hunk.oldStart - 1 > 0 THEN hunk.oldStart - 1 ELSE 0
  IN HunkFrom(hunk.lines, lines, startIndex,
              SubSeq(lines, 1, IF startIndex <= Len(lines) THEN startIndex ELSE Len(lines)))

RECURSIVE ApplyHunks(_, _)
ApplyHunks(lines, hunks) ==
  IF hunks = <<>> THEN [ok |-> TRUE, lines |-> lines]
  ELSE LET res == applyHunk(lines, Head(hunks))
       IN IF res.ok THEN ApplyHunks(res.lines, Tail(hunks)) ELSE res

RECURSIVE applyPatchesToWorkspace(_, _)
\* the loop over the patches: readFile, the hunks, writeFile, one file after
\* the other; [ok, files]: whether it returned or threw, and the mirror files
applyPatchesToWorkspace(files, patches) ==
  IF patches = <<>> THEN [ok |-> TRUE, files |-> files]
  ELSE LET patch == Head(patches)
           name == MirrorFileOf(patch.filePath)
           file == IF name \in Paths THEN files[name] ELSE Absent
           res == ApplyHunks(MirrorLines(file.data), patch.hunks)
           newContent == JoinLines(res.lines)
                           \o (IF EndsWithLF(file.data) THEN <<LF>> ELSE <<>>)
       IN IF ~file.exists \/ ~res.ok THEN [ok |-> FALSE, files |-> files]
          ELSE applyPatchesToWorkspace(
                 [files EXCEPT ![name].data = newContent], Tail(patches))

\* mutant: every file of the mirror counts as changed, not only the files the
\* diff names
ChangedFilesAll(patches, acc) ==
  IF patches = <<>> THEN acc
  ELSE LET root == SubSeq(Head(patches).filePath, 1, 3)
       IN << root \o <<"/", "main">>, root \o <<"/", "inc">> >>

RECURSIVE ChangedFiles(_, _)
\* the Set changedFiles, in insertion order
ChangedFiles(patches, acc) ==
  IF patches = <<>> THEN acc
  ELSE ChangedFiles(Tail(patches),
         IF \E i \in 1..Len(acc) : acc[i] = Head(patches).filePath
         THEN acc ELSE Append(acc, Head(patches).filePath))

\* HLedgerExecutor.execute("rewrite", args) and the two early returns of run():
\* the dry run and the empty diff
ExtRewrite(r) ==
  /\ pc[r] = "extrewrite"
  /\ \E out \in {"ok", "fail"}, diff \in Diffs(r) :
       IF out = "fail" THEN ToCatch(r, "HLedgerError", "rewrite")
       ELSE /\ loc' = [loc EXCEPT ![r].diff = diff,
                                  ![r].out = IF diff = <<>> THEN NoText ELSE <<"diff">>]
            /\ Goto(r, IF inp[r].dryRun \/ diff = <<>> THEN "dryreturn" ELSE "apply")
            /\ UNCHANGED <<result, inp>>
  /\ UNCHANGED <<readOnly, skipBackup, journal, backups, tmp, mirror, pre, chk, staged, origin>>

\* parseUnifiedDiff, then applyPatchesToWorkspace on the mirror
ApplyDiff(r) ==
  /\ pc[r] = "apply"
  /\ LET parsed == parseUnifiedDiff(loc[r].diff, WorkspaceRoot(r))
         applied == applyPatchesToWorkspace(mirror[r].files, parsed.patches)
     IN IF ~parsed.ok THEN ToCatch(r, "Error", "outside") /\ mirror' = mirror
        ELSE /\ mirror' = [mirror EXCEPT ![r].files = applied.files]
             /\ IF applied.ok
                THEN /\ loc' = [loc EXCEPT ![r].changed = ChangedFiles(parsed.patches, <<>>)]
                     /\ Goto(r, "check")
                     /\ UNCHANGED <<result, inp>>
                ELSE ToCatch(r, "Error", "patch")
  /\ UNCHANGED <<readOnly, skipBackup, journal, backups, tmp, pre, chk, staged, origin>>

\* finalizeRewrite, one changed file: fileExists and the backup copy
RewriteBackup(r) ==
  /\ pc[r] = "commit"
  /\ LET f == MirrorFileOf(Head(loc[r].changed))
     IN IF f \notin loc[r].visited
        THEN /\ loc' = [loc EXCEPT ![r].changed = Tail(@)]
             /\ Goto(r, IF Len(loc[r].changed) = 1 THEN "rwfinish" ELSE "commit")
             /\ UNCHANGED <<result, inp, backups>>
        ELSE IF ~(journal[f].exists /\ ~skipBackup)
        THEN Goto(r, "copyback") /\ UNCHANGED <<loc, result, inp, backups>>
        ELSE \E io \in {"ok", "fail"} :
          IF io = "ok"
          THEN /\ backups' = backups \cup {[of |-> f, ts |-> r, data |-> journal[f].data]}
               /\ loc' = [loc EXCEPT ![r].bks = @ \cup {[of |-> f, ts |-> r]}]
               /\ Goto(r, "copyback")
               /\ UNCHANGED <<result, inp>>
          ELSE ToCatch(r, "Error", "io") /\ backups' = backups
  /\ UNCHANGED <<readOnly, skipBackup, journal, tmp, mirror, pre, chk, staged, origin>>

\* finalizeRewrite, one changed file: mkdir and copyFile(workspacePath, originalPath)
RewriteCopyBack(r) ==
  /\ pc[r] = "copyback"
  /\ LET f == MirrorFileOf(Head(loc[r].changed))
     IN \E io \in {"ok", "fail"} :
          IF io = "ok"
          THEN /\ journal' = [journal EXCEPT ![f] = mirror[r].files[f]]
               /\ loc' = [loc EXCEPT ![r].changed = Tail(@)]
               /\ Goto(r, IF Len(loc[r].changed) = 1 THEN "rwfinish" ELSE "commit")
               /\ UNCHANGED <<result, inp>>
          ELSE ToCatch(r, "Error", "io") /\ journal' = journal
  /\ UNCHANGED <<readOnly, skipBackup, backups, tmp, mirror, pre, chk, staged, origin>>

\* run() after finalizeRewrite: cleanupRewriteWorkspace and the response
RewriteFinish(r) ==
  /\ pc[r] = "rwfinish"
  /\ mirror' = [mirror EXCEPT ![r] = NoMirror]
  /\ Finish(r, "ok", "", "", TRUE, loc[r].bks, loc[r].out)
  /\ UNCHANGED <<readOnly, skipBackup, journal, backups, tmp, pre, chk, staged, origin>>

Next ==
  \E r \in Reqs :
    \/ BeginAdd(r)
    \/ BeginClose(r)
    \/ BeginRemove(r)
    \/ BeginReplace(r)
    \/ BeginImport(r)
    \/ BeginRewrite(r)
    \/ Stage(r)
    \/ AppendStaged(r)
    \/ ExtClose(r)
    \/ EditStaged(r)
    \/ ExtImport(r)
    \/ MkMirror(r)
    \/ copyWithIncludes(r)
    \/ ExtRewrite(r)
    \/ ApplyDiff(r)
    \/ Check(r)
    \/ DryReturn(r)
    \/ BackupCopy(r)
    \/ Rename(r)
    \/ RewriteBackup(r)
    \/ RewriteCopyBack(r)
    \/ RewriteFinish(r)
    \/ Catch(r)

Spec == Init /\ [][Next]_vars

\* ------------------------------------------------------------------ calls
\* single calls of the pure functions, on inputs drawn from bounded sets
Letters == {"a", "b"}

\* the files of at most MaxLine lines, each line one letter
OldLines == UNION {[1..n -> {<<l>> : l \in Letters}] : n \in 0..MaxLine}

RECURSIVE NewLines(_, _)
\* an edit script gives every line of the old file one of "keep", "ins" (a
\* line c is added after it) and "del"; NewLines is the file it describes
NewLines(old, ops) ==
  IF old = <<>> THEN <<>>
  ELSE (CASE Head(ops) = "keep" -> <<Head(old)>>
          [] Head(ops) = "ins" -> <<Head(old), <<"c">>>>
          [] OTHER -> <<>>)
       \o NewLines(Tail(old), Tail(ops))

RECURSIVE HunksOf(_, _, _)
\* the hunks of the unified diff of an edit script, one per changed line p of
\* the old file, in ascending order, each with oldStart = p
HunksOf(old, ops, p) ==
  IF p > Len(old) THEN <<>>
  ELSE (CASE ops[p] = "keep" -> <<>>
          [] ops[p] = "ins" -> << DLine("@@", <<>>, p, <<>>), DLine(" ", <<>>, 0, old[p]),
                                  DLine("+", <<>>, 0, <<"c">>) >>
          [] OTHER -> << DLine("@@", <<>>, p, <<>>), DLine("-", <<>>, 0, old[p]) >>)
       \o HunksOf(old, ops, p + 1)

\* what hledger prints for an edit script of the mirror copy at path; the
\* output ends with a newline, so split("\n") ends with an empty line
DiffOf(path, old, ops) ==
  << DLine("---", path, 0, <<>>), DLine("+++", path, 0, <<>>) >>
    \o HunksOf(old, ops, 1) \o << DLine("x", <<>>, 0, <<>>) >>

FileOfLines(lines) == IF lines = <<>> THEN <<>> ELSE JoinLines(lines) \o <<LF>>

PatchInputs ==
  \E old \in OldLines, ops \in [1..MaxLine -> {"keep", "ins", "del"}] :
    calc = [NoCalc EXCEPT !.fn = "patch", !.content = FileOfLines(old),
                   !.diff = DiffOf(MirrorPath(1, "main"), old, ops),
                   !.new = FileOfLines(NewLines(old, ops))]

\* the paths a "+++" header may name: the mirror copy, a path elsewhere, a
\* directory whose name starts with the mirror's name, a path leaving the
\* mirror through ".."
HeaderPaths ==
  { MirrorPath(1, "main"), <<"/", "data", 0, "/", "main">>,
    WorkspaceRoot(1) \o <<"x", "/", "main">>,
    WorkspaceRoot(1) \o <<"/", "..", "/", "main">> }

HeaderInputs ==
  \E old \in OldLines \ {<<>>}, p1 \in HeaderPaths, p2 \in HeaderPaths :
    calc = [NoCalc EXCEPT !.fn = "headers", !.content = FileOfLines(old),
                   !.diff = FileDiff(p1, old, old[1]) \o FileDiff(p2, old, old[1])]

\* run() lines 139-140 on a mirror holding one file: parseUnifiedDiff, then
\* applyPatchesToWorkspace unless the parser threw
PatchCall ==
  /\ calc.fn \in {"patch", "headers"} /\ calc.phase = "in"
  /\ LET parsed == parseUnifiedDiff(calc.diff, WorkspaceRoot(1))
         files == [f \in Paths |-> IF f = "main" THEN File(calc.content) ELSE Absent]
         applied == applyPatchesToWorkspace(files, parsed.patches)
     IN calc' = [calc EXCEPT !.phase = "out",
                   !.out = [parsed |-> parsed.ok,
                            ok |-> parsed.ok /\ applied.ok,
                            content |-> applied.files["main"].data]]
  /\ UNCHANGED <<server, web>>

\* ---- JournalFileEditor on its own: the files of at most MaxLen characters
Chars == {"a", LF, CR, SP}
Contents == UNION {[1..n -> Chars] : n \in 0..MaxLen}
Lines == 0..(MaxLine + 1)

RoundTripInputs ==
  \E c \in Contents, st \in Lines, en \in Lines :
    calc = [NoCalc EXCEPT !.fn = "roundtrip", !.content = c, !.startLine = st, !.endLine = en]

\* new JournalFileEditor(content); t = extract(start, end); replace(start, end,
\* t); extract(start, end). A ValidationError of assertRange ends the call.
RoundTripCall ==
  /\ calc.fn = "roundtrip" /\ calc.phase = "in"
  /\ LET segs == splitIntoSegments(calc.content)
         st == calc.startLine
         en == calc.endLine
     IN IF ~assertRange(segs, st, en)
        THEN calc' = [calc EXCEPT !.phase = "out",
                        !.out = [ok |-> FALSE, first |-> <<>>, second |-> <<>>,
                                 segments |-> segs]]
        ELSE LET t == extract(segs, st, en)
                 after == replace(segs, st, en, t).segments
             IN calc' = [calc EXCEPT !.phase = "out",
                           !.out = [ok |-> assertRange(after, st, en), first |-> t,
                                    second |-> IF assertRange(after, st, en)
                                               THEN extract(after, st, en) ELSE <<>>,
                                    segments |-> after]]
  /\ UNCHANGED <<server, web>>

RemoveInputs ==
  \E c \in Contents, st \in Lines, en \in Lines, col \in BOOLEAN :
    calc = [NoCalc EXCEPT !.fn = "remove", !.content = c, !.startLine = st, !.endLine = en,
                   !.collapse = col]

\* new JournalFileEditor(content).remove(start, end, collapseFollowingBlank),
\* then toString()
RemoveCall ==
  /\ calc.fn = "remove" /\ calc.phase = "in"
  /\ LET segs == splitIntoSegments(calc.content)
     IN IF ~assertRange(segs, calc.startLine, calc.endLine)
        THEN calc' = [calc EXCEPT !.phase = "out",
                        !.out = [ok |-> FALSE, segments |-> segs, text |-> <<>>,
                                 trailing |-> FALSE, content |-> Join(segs)]]
        ELSE LET res == remove(segs, calc.startLine, calc.endLine, calc.collapse)
             IN calc' = [calc EXCEPT !.phase = "out",
                           !.out = [ok |-> TRUE, segments |-> res.segments,
                                    text |-> res.removedText,
                                    trailing |-> res.trailingBlankRemoved,
                                    content |-> Join(res.segments)]]
  /\ UNCHANGED <<server, web>>

\* replacement texts: LF and CRLF endings, no, one or several trailing newlines
Replacements ==
  { <<>>, <<"c">>, <<"c", LF>>, <<"c", LF, LF>>, <<"c", CR, LF>>,
    <<"c", CR, LF, CR, LF>>, <<"c", CR, LF, "d">>, <<"c", CR, CR, LF>> }

ReplaceInputs ==
  \E c \in Contents, st \in Lines, en \in Lines, t \in Replacements :
    calc = [NoCalc EXCEPT !.fn = "replace", !.content = c, !.startLine = st, !.endLine = en,
                   !.text = t]

\* mutant: replace drops a blank segment that follows the range, as remove does
ReplaceCallCollapsing ==
  /\ calc.fn = "replace" /\ calc.phase = "in"
  /\ LET segs == splitIntoSegments(calc.content)
     IN IF ~assertRange(segs, calc.startLine, calc.endLine)
        THEN calc' = [calc EXCEPT !.phase = "out",
                        !.out = [ok |-> FALSE, segments |-> segs, text |-> <<>>,
                                 removed |-> <<>>, content |-> Join(segs)]]
        ELSE LET res == replace(segs, calc.startLine, calc.endLine, calc.text)
                 drop == calc.endLine < Len(segs) /\ isBlank(segs[calc.endLine + 1])
                 kept == IF drop
                         THEN SubSeq(res.segments, 1, Len(res.segments) - (Len(segs) - calc.endLine))
                                \o SubSeq(segs, calc.endLine + 2, Len(segs))
                         ELSE res.segments
             IN calc' = [calc EXCEPT !.phase = "out",
                           !.out = [ok |-> TRUE, segments |-> kept,
                                    text |-> res.insertedText,
                                    removed |-> res.removedText,
                                    content |-> Join(kept)]]
  /\ UNCHANGED <<server, web>>

\* new JournalFileEditor(content).replace(start, end, text), then toString()
ReplaceCall ==
  /\ calc.fn = "replace" /\ calc.phase = "in"
  /\ LET segs == splitIntoSegments(calc.content)
     IN IF ~assertRange(segs, calc.startLine, calc.endLine)
        THEN calc' = [calc EXCEPT !.phase = "out",
                        !.out = [ok |-> FALSE, segments |-> segs, text |-> <<>>,
                                 removed |-> <<>>, content |-> Join(segs)]]
        ELSE LET res == replace(segs, calc.startLine, calc.endLine, calc.text)
             IN calc' = [calc EXCEPT !.phase = "out",
                           !.out = [ok |-> TRUE, segments |-> res.segments,
                                    text |-> res.insertedText,
                                    removed |-> res.removedText,
                                    content |-> Join(res.segments)]]
  /\ UNCHANGED <<server, web>>

ExtractInputs ==
  \E c \in Contents, st \in Lines, en \in Lines :
    calc = [NoCalc EXCEPT !.fn = "extract", !.content = c, !.startLine = st, !.endLine = en]

\* new JournalFileEditor(content).extract(start, end)
ExtractCall ==
  /\ calc.fn = "extract" /\ calc.phase = "in"
  /\ LET segs == splitIntoSegments(calc.content)
         ok == assertRange(segs, calc.startLine, calc.endLine)
     IN calc' = [calc EXCEPT !.phase = "out",
                   !.out = [ok |-> ok, segments |-> segs,
                            text |-> IF ok THEN extract(segs, calc.startLine, calc.endLine)
                                     ELSE <<>>,
                            content |-> Join(segs)]]
  /\ UNCHANGED <<server, web>>

\* a file of at most MaxLine lines, each empty or one letter, and one hunk of
\* at most MaxLine lines
HunkContents == {<<>>, <<"a">>}
HunkInputs ==
  \E lines \in UNION {[1..n -> HunkContents] : n \in 0..MaxLine},
     changes \in UNION {[1..n -> [type : {"context", "remove", "add"},
                                  content : HunkContents]] : n \in 1..MaxLine},
     oldStart \in 0..(MaxLine + 1) :
    calc = [NoCalc EXCEPT !.fn = "hunk", !.content = lines,
                   !.diff = [oldStart |-> oldStart, lines |-> changes]]

\* applyHunk(lines, hunk)
HunkCall ==
  /\ calc.fn = "hunk" /\ calc.phase = "in"
  /\ calc' = [calc EXCEPT !.phase = "out", !.out = applyHunk(calc.content, calc.diff)]
  /\ UNCHANGED <<server, web>>

NormalizeInputs ==
  \E c \in Contents : calc = [NoCalc EXCEPT !.fn = "normalize", !.content = c]

\* normalizeEntryForComparison(text), on its own result, and on the two texts
\* that differ from the text in their line endings (every CRLF written as LF)
\* or in one final newline
NormalizeCall ==
  /\ calc.fn = "normalize" /\ calc.phase = "in"
  /\ calc' = [calc EXCEPT !.phase = "out",
       !.out = [once |-> normalizeEntryForComparison(calc.content),
                twice |-> normalizeEntryForComparison(
                            normalizeEntryForComparison(calc.content)),
                unix |-> normalizeEntryForComparison(normalizeNewlines(calc.content)),
                more |-> normalizeEntryForComparison(Append(calc.content, LF))]]
  /\ UNCHANGED <<server, web>>

\* the inputs of one call
CallInputs ==
  \/ PatchInputs
  \/ HeaderInputs
  \/ RoundTripInputs
  \/ RemoveInputs
  \/ ReplaceInputs
  \/ ExtractInputs
  \/ NormalizeInputs
  \/ HunkInputs

InitCalls ==
  /\ ServerInit /\ ~readOnly /\ ~skipBackup /\ ~journal["main"].exists
  /\ CallInputs

NextCalls ==
  \/ PatchCall
  \/ RoundTripCall
  \/ RemoveCall
  \/ ReplaceCall
  \/ ExtractCall
  \/ NormalizeCall
  \/ HunkCall

SpecCalls == InitCalls /\ [][NextCalls]_vars

\* ------------------------------------------------------------------ concurrent requests
\* two requests dispatched without waiting for each other's response: every
\* await of one handler is a point where the other handler may run
Pair == {1, 2}

\* AddTransactionTool.run entered while another request may be running
\* (dryRun left false: a dry run never commits)
ArriveAdd(r) ==
  /\ r \in Pair
  /\ \E text \in AddTexts :
       Enter(r, readOnly, [NoInput EXCEPT !.kind = "add", !.text = text], "stage")

\* RemoveEntryTool.run entered while another request may be running, for an
\* entry of one line (dryRun left false)
ArriveRemove(r) ==
  /\ r \in Pair
  /\ \E expected \in EntryTexts, collapse \in BOOLEAN, s \in 1..MaxLine :
       Enter(r, readOnly,
             [NoInput EXCEPT !.kind = "remove", !.expected = expected,
                !.collapse = collapse, !.startLine = s, !.endLine = s],
             "stage")

\* a writable server holding a journal, no request yet
InitConcurrent ==
  /\ ServerInit
  /\ ~readOnly
  /\ journal["main"].exists
  /\ calc = NoCalc

NextConcurrent ==
  \E r \in Pair :
    \/ ArriveAdd(r)
    \/ ArriveRemove(r)
    \/ Stage(r)
    \/ AppendStaged(r)
    \/ EditStaged(r)
    \/ Check(r)
    \/ BackupCopy(r)
    \/ Rename(r)
    \/ Catch(r)

SpecConcurrent == InitConcurrent /\ [][NextConcurrent]_vars

\* ------------------------------------------------------------------ mirror walk
\* createRewriteWorkspace on an arbitrary include graph. Paths are sequences
\* of path characters; the root journal lies in RootDir.
US == "_"
EXT == "__external__"
RootDir == <<"/", "r">>
RootFile == <<"/", "r", "/", "m">>
\* the journals on disk: the root, one below the root directory, two outside
MirrorFiles ==
  { RootFile, <<"/", "r", "/", "d", "/", "a">>,
    <<"/", "x", "/", "a", US, "b">>, <<"/", "x", "/", "a", "/", "b">> }
\* a path no file has
GonePath == <<"/", "r", "/", "g">>

\* an include graph: pairs <<file, target>>. The targets of one file are what
\* expandIncludePaths returns for its directives: a plain directive gives its
\* one target (GonePath: realpath throws), a glob gives every file it matches
IncludeEdges == MirrorFiles \X (MirrorFiles \cup {GonePath})

RECURSIVE EdgeSets(_)
EdgeSets(n) ==
  IF n = 0 THEN {{}}
  ELSE LET less == EdgeSets(n - 1)
       IN less \cup {g \cup {e} : g \in less, e \in IncludeEdges}

IncludesOf(graph, f) == {e[2] : e \in {d \in graph : d[1] = f}}

\* path.relative(rootDir, resolved) for a root directory one level deep
Relative(p) ==
  IF StartsWith(p, RootDir \o <<"/">>)
  THEN SubSeq(p, Len(RootDir) + 2, Len(p))
  ELSE <<"..">> \o p

\* resolved.replace(/[:\\/]/g, "_")
Sanitize(p) == [i \in 1..Len(p) |-> IF p[i] \in {"/", ":", "\\"} THEN US ELSE p[i]]

\* the destination copyWithIncludes computes for a canonical path
Destination(p) ==
  WorkspaceRoot(1) \o <<"/">> \o
    (IF Relative(p)[1] = ".." THEN <<EXT, "/">> \o Sanitize(p) ELSE Relative(p))

\* Map.set and Map.get on a map kept as a set of <<key, value>> pairs
MapSet(m, k, v) == {p \in m : p[1] # k} \cup {<<k, v>>}
MapHas(m, k) == \E p \in m : p[1] = k
MapGet(m, k) == (CHOOSE p \in m : p[1] = k)[2]

NoWalk == [stack |-> <<>>, visited |-> {}, fileMap |-> {}, copyToOriginal |-> {},
           disk |-> {}, copied |-> <<>>, ok |-> TRUE]

MirrorInputs ==
  \E graph \in EdgeSets(MaxEdges) :
    calc = [NoCalc EXCEPT !.fn = "mirror", !.graph = graph,
              !.out = [NoWalk EXCEPT !.stack = << {RootFile} >>]]

\* mutant: copyWithIncludes without the visited set
MirrorCallRevisiting ==
  /\ calc.fn = "mirror" /\ calc.phase = "in"
  /\ calc.out.stack # <<>>
  /\ LET w == calc.out
         n == Len(w.stack)
     IN \E f \in w.stack[n], io \in {"ok", "fail"} :
          LET rest == [w.stack EXCEPT ![n] = @ \ {f}]
              dest == Destination(f)
          IN calc' =
               IF f \notin MirrorFiles
               THEN [calc EXCEPT !.phase = "out", !.out.ok = FALSE]
               ELSE IF io = "fail"
               THEN [calc EXCEPT !.phase = "out", !.out.ok = FALSE,
                                 !.out.visited = @ \cup {f}]
               ELSE [calc EXCEPT
                       !.out.stack = Append(rest, IncludesOf(calc.graph, f)),
                       !.out.visited = @ \cup {f},
                       !.out.disk = MapSet(@, dest, f),
                       !.out.copied = Append(@, f),
                       !.out.fileMap = MapSet(@, f, dest),
                       !.out.copyToOriginal = MapSet(@, dest, f)]
  /\ UNCHANGED <<server, web>>

\* one call of copyWithIncludes, made by createRewriteWorkspace (bottom frame)
\* or by the directive loop of the call on top of the stack; a frame is the
\* set of targets its loop has still to recurse into
MirrorCall ==
  /\ calc.fn = "mirror" /\ calc.phase = "in"
  /\ calc.out.stack # <<>>
  /\ LET w == calc.out
         n == Len(w.stack)
     IN \E f \in w.stack[n], io \in {"ok", "fail"} :
          LET rest == [w.stack EXCEPT ![n] = @ \ {f}]
              dest == Destination(f)
          IN calc' =
               IF f \notin MirrorFiles
               THEN [calc EXCEPT !.phase = "out", !.out.ok = FALSE]
               ELSE IF f \in w.visited
               THEN [calc EXCEPT !.out.stack = rest]
               ELSE IF io = "fail"
               THEN [calc EXCEPT !.phase = "out", !.out.ok = FALSE,
                                 !.out.visited = @ \cup {f}]
               ELSE [calc EXCEPT
                       !.out.stack = Append(rest, IncludesOf(calc.graph, f)),
                       !.out.visited = @ \cup {f},
                       !.out.disk = MapSet(@, dest, f),
                       !.out.copied = Append(@, f),
                       !.out.fileMap = MapSet(@, f, dest),
                       !.out.copyToOriginal = MapSet(@, dest, f)]
  /\ UNCHANGED <<server, web>>

\* the directive loop of the call on top of the stack is over: it returns;
\* when createRewriteWorkspace gets control back it looks up the target copy
MirrorReturn ==
  /\ calc.fn = "mirror" /\ calc.phase = "in"
  /\ calc.out.stack # <<>>
  /\ Last(calc.out.stack) = {}
  /\ calc' = IF Len(calc.out.stack) = 1
             THEN [calc EXCEPT !.phase = "out", !.out.stack = <<>>,
                               !.out.ok = MapHas(calc.out.fileMap, RootFile)]
             ELSE [calc EXCEPT !.out.stack = Front(@)]
  /\ UNCHANGED <<server, web>>

InitMirror ==
  /\ ServerInit
  /\ ~readOnly /\ ~skipBackup /\ ~journal["main"].exists
  /\ MirrorInputs

NextMirror == MirrorCall \/ MirrorReturn

SpecMirror == InitMirror /\ [][NextMirror]_vars

\* every await of the walk completes: the walk is never suspended for ever
SpecMirrorLive == SpecMirror /\ WF_vars(NextMirror)

\* ------------------------------------------------------------------ web instances
\* mutant: read-only mode only changes the default level
resolveAccessLevelDefault(ro, requested) ==
  IF requested = "edit" THEN "edit"
  ELSE IF requested = "view" \/ ro THEN "view"
  ELSE "add"

\* WebTool.resolveAccessLevel; "none": the request named no level
resolveAccessLevel(ro, requested) ==
  IF ro THEN "view"
  ELSE IF requested = "edit" THEN "edit"
  ELSE IF requested = "view" THEN "view"
  ELSE "add"

\* the level WebTool.buildArgs passes after --allow ("none": no --allow)
buildArgsAllow(inputAllow, overrideAllow) ==
  IF overrideAllow # "none" THEN overrideAllow ELSE inputAllow

\* WebTool.run: spawn hledger web with the effective level, then either the
\* ready signal or the start-up timer (resolveSuccess registers the child) or
\* an exit or error of the child before that (the run rejects, no register)
WebStart(i) ==
  /\ ~child[i].spawned
  /\ \E requested \in {"none", "view", "add", "edit"}, outcome \in {"ready", "exit", "error"} :
       LET effective == resolveAccessLevel(readOnly, requested)
           started == [NoChild EXCEPT !.spawned = TRUE, !.requestedAllow = requested,
                         !.allow = effective,
                         !.args = buildArgsAllow(requested, effective)]
       IN IF outcome = "ready"
          THEN /\ child' = [child EXCEPT ![i] =
                    [started EXCEPT !.registered = TRUE, !.regExit = TRUE,
                                    !.regError = TRUE]]
               /\ instances' = instances \cup {i}
          ELSE /\ child' = [child EXCEPT ![i] =
                    [started EXCEPT !.exited = (outcome = "exit"),
                                    !.errored = (outcome = "error")]]
               /\ instances' = instances
  /\ UNCHANGED <<server, calc, stops>>

\* WebProcessRegistry.list
list == instances

\* mutant: cleanup() leaves the timer running
cleanupKeepsTimer(s) == [s EXCEPT !.onExit = FALSE, !.onError = FALSE]

\* cleanup() of a stopInstance call
cleanup(s) == [s EXCEPT !.onExit = FALSE, !.onError = FALSE, !.timer = FALSE]

\* resolve() or reject() of the call's promise: only the first one settles it
Settle(s, outcome, event) ==
  IF s.promise = "pending"
  THEN [s EXCEPT !.promise = outcome, !.by = event, !.calls = @ + 1]
  ELSE [s EXCEPT !.calls = @ + 1]

\* resolveResult, onError and the timer callback of a stopInstance call
Handle(s, event) ==
  IF s.settled THEN s
  ELSE Settle(cleanup([s EXCEPT !.settled = TRUE]),
              IF event = "exit" THEN "resolved" ELSE "rejected", event)

\* does the call listen for the event on child i
Listens(s, i, event) ==
  s.inst = i /\ IF event = "exit" THEN s.onExit ELSE s.onError

\* child.emit(event): the registry's listener (removeEntry, onError), attached
\* first, then the listeners of the stopInstance calls, in one turn
\* mutant: register listens for 'exit' only
ByRegistryExitOnly(ch, event) == event = "exit" /\ ch.regExit

\* is the registry's listener for the event attached to the child
ByRegistry(ch, event) == IF event = "exit" THEN ch.regExit ELSE ch.regError
ByStop(i, event, st) == \E c \in Stops : Listens(st[c], i, event) /\ ~st[c].settled

EmitInstances(i, event, ch, st) ==
  IF ByRegistry(ch, event) \/ ByStop(i, event, st) THEN instances \ {i} ELSE instances

EmitChild(i, event, ch, st) ==
  [ch EXCEPT !.exited = (@ \/ event = "exit"),
             !.errored = (@ \/ event = "error"),
             !.regExit = (@ /\ event # "exit"),
             !.regError = (@ /\ ~ByRegistry(ch, event)),
             !.dropped = IF i \in instances /\ ~ByRegistry(ch, event) /\ ByStop(i, event, st)
                         THEN "stop" ELSE @]

\* history: the first of the competing events since the call began to wait
Seen(s, event) == IF s.first = "none" THEN [s EXCEPT !.first = event] ELSE s

EmitStops(i, event, st) ==
  [c \in Stops |->
     LET t == IF Listens(st[c], i, event) THEN Handle(st[c], event) ELSE st[c]
     IN IF st[c].inst = i /\ st[c].promise # "none" /\ st[c].by \notin {"missing", "killed"}
        THEN Seen(t, event) ELSE t]

Emit(i, event) ==
  /\ instances' = EmitInstances(i, event, child[i], stops)
  /\ child' = [child EXCEPT ![i] = EmitChild(i, event, child[i], stops)]
  /\ stops' = EmitStops(i, event, stops)

\* the child process ends: 'exit' is emitted
ChildExit(i) ==
  /\ child[i].registered /\ ~child[i].exited
  /\ Emit(i, "exit")
  /\ UNCHANGED <<server, calc>>

\* the child emits 'error' on its own
ChildError(i) ==
  /\ child[i].registered /\ ~child[i].exited /\ ~child[i].errored
  /\ Emit(i, "error")
  /\ UNCHANGED <<server, calc>>

\* stopInstance(instanceId) up to its first await: the lookup, the killed
\* shortcut, else the promise executor (timer, listeners, child.kill). kill
\* returns true (signal sent, child.killed set), returns false, or emits
\* 'error' before returning false
StopBegin(c, i) ==
  /\ stops[c].promise = "none"
  /\ \A b \in Stops : b < c => stops[b].promise # "none"
  /\ IF i \notin instances
     THEN /\ stops' = [stops EXCEPT ![c] =
                [NoStop EXCEPT !.inst = i, !.promise = "rejected", !.by = "missing"]]
          /\ UNCHANGED <<instances, child>>
     ELSE IF child[i].killed
     THEN /\ instances' = instances \ {i}
          /\ child' = [child EXCEPT ![i].dropped = "stop"]
          /\ stops' = [stops EXCEPT ![c] =
                [NoStop EXCEPT !.inst = i, !.promise = "resolved", !.by = "killed"]]
     ELSE \E kill \in {"sent", "refused", "error"} :
            LET s == [NoStop EXCEPT !.inst = i, !.promise = "pending", !.timer = TRUE,
                                    !.onExit = TRUE, !.onError = TRUE]
                failed(t) == Seen(Settle(cleanup([t EXCEPT !.settled = TRUE]),
                                         "rejected", "nosignal"), "nosignal")
            IN CASE kill = "sent" ->
                      /\ child' = [child EXCEPT ![i].killed = TRUE]
                      /\ stops' = [stops EXCEPT ![c] = s]
                      /\ instances' = instances
                 [] kill = "refused" ->
                      /\ stops' = [stops EXCEPT ![c] = failed(s)]
                      /\ UNCHANGED <<instances, child>>
                 [] kill = "error" ->
                      LET st == [stops EXCEPT ![c] = s]
                      IN /\ ~child[i].errored
                         /\ instances' = EmitInstances(i, "error", child[i], st)
                         /\ child' = [child EXCEPT ![i] =
                              EmitChild(i, "error", child[i], st)]
                         /\ stops' = [EmitStops(i, "error", st) EXCEPT ![c] = failed(@)]
  /\ UNCHANGED <<server, calc>>

\* the timer of a stopInstance call fires
StopTimeout(c) ==
  /\ stops[c].timer
  /\ stops' = [stops EXCEPT ![c] = Seen(Handle(@, "timeout"), "timeout")]
  /\ UNCHANGED <<server, calc, instances, child>>

InitWeb ==
  /\ ServerInit
  /\ ~skipBackup /\ ~journal["main"].exists
  /\ calc = NoCalc

NextWeb ==
  \/ \E i \in Webs : WebStart(i)
  \/ \E i \in Webs : ChildExit(i)
  \/ \E i \in Webs : ChildError(i)
  \/ \E c \in Stops, i \in Webs : StopBegin(c, i)
  \/ \E c \in Stops : StopTimeout(c)

SpecWeb == InitWeb /\ [][NextWeb]_vars

\* ------------------------------------------------------------------ other processes
\* what a process reading the journal files can see: fs.rename replaces a
\* path in one step, fs.copyFile truncates its destination and writes into it
\* finalizeRewrite, copyFile(workspacePath, originalPath), first part: the
\* original holds a proper prefix of the mirror copy
CopyFileBegin(r) ==
  /\ pc[r] = "copyback"
  /\ LET f == MirrorFileOf(Head(loc[r].changed))
         new == mirror[r].files[f].data
     IN \E n \in 0..(Len(new) - 1) :
          journal' = [journal EXCEPT ![f] = File(SubSeq(new, 1, n))]
  /\ Goto(r, "copying")
  /\ UNCHANGED <<loc, result, inp>>
  /\ UNCHANGED <<readOnly, skipBackup, backups, tmp, mirror, pre, chk, staged, origin>>

\* the rest of the copy, or its failure part-way
CopyFileEnd(r) ==
  /\ pc[r] = "copying"
  /\ LET f == MirrorFileOf(Head(loc[r].changed))
     IN \E io \in {"ok", "fail"} :
          IF io = "ok"
          THEN /\ journal' = [journal EXCEPT ![f] = mirror[r].files[f]]
               /\ loc' = [loc EXCEPT ![r].changed = Tail(@)]
               /\ Goto(r, IF Len(loc[r].changed) = 1 THEN "rwfinish" ELSE "commit")
               /\ UNCHANGED <<result, inp>>
          ELSE ToCatch(r, "Error", "io") /\ journal' = journal
  /\ UNCHANGED <<readOnly, skipBackup, backups, tmp, mirror, pre, chk, staged, origin>>

NextObserved ==
  \/ Next
  \/ \E r \in Reqs : CopyFileBegin(r)
  \/ \E r \in Reqs : CopyFileEnd(r)

SpecObserved == Init /\ [][NextObserved]_vars

\* ------------------------------------------------------------------ claims
\* the request has been answered and is the one answered last
Done(r) == pc[r] = "done" /\ result[r].status # "none"
InFlight(r) == pc[r] \notin {"idle", "done"}
NoBackupBy(r) == \A b \in backups : b.ts # r
SingleFile(kind) == kind \in {"add", "close", "remove", "replace", "import"}

Drifted(r) ==
  LET segs == splitIntoSegments(pre[r][inp[r].target].data)
  IN /\ inp[r].kind \in {"remove", "replace"}
     /\ staged[r]
     /\ assertRange(segs, inp[r].startLine, inp[r].endLine)
     /\ normalizeEntryForComparison(inp[r].expected)
          # normalizeEntryForComparison(extract(segs, inp[r].startLine, inp[r].endLine))

\* C3: a remove-entry or replace-entry request whose expected text differs,
\* after newline normalization, from the text read from the staged copy at
\* startLine..endLine ends with a ValidationError, without the external check
\* having run, without a backup, with the staged copy deleted and the journal
\* as it was before the request.
C3_DriftAborts ==
  \A r \in Reqs :
    Done(r) /\ Drifted(r) /\ result[r].why # "io" =>
      /\ result[r].status = "error"
      /\ result[r].error = "ValidationError"
      /\ chk[r] = "none"
      /\ NoBackupBy(r)
      /\ ~tmp[r].exists
      /\ journal = pre[r]

C3_Witness ==
  \E r \in Reqs :
    /\ Done(r) /\ Drifted(r) /\ inp[r].kind = "replace" /\ ~inp[r].dryRun
    /\ result[r].why = "drift"
    /\ pre[r]["main"].data = <<"a", LF, LF, "b", LF>>

\* the text a dry run of the request reports: the appended transaction, the
\* removed or inserted entry (computed from the journal as it was)
WouldBeText(r) ==
  LET i == inp[r]
      segs == splitIntoSegments(pre[r][i.target].data)
  IN CASE i.kind = "add" -> trimEnd(i.text)
       [] i.kind = "remove" -> extract(segs, i.startLine, i.endLine)
       [] i.kind = "replace" -> ensureTrailingNewline(normalizeNewlines(i.text))
       [] OTHER -> result[r].text

\* C4: a request made with dryRun=true (append, remove-entry, replace-entry,
\* import, rewrite) ends with the journal files as they were, no backup made,
\* the staged copy or the mirror gone, applied=false, and, when it returns, the
\* would-be text; a remove or replace that returns has passed the external
\* check.
C4_DryRunDiscards ==
  \A r \in Reqs :
    Done(r) /\ inp[r].dryRun /\ inp[r].kind \in {"add", "remove", "replace", "import", "rewrite"} =>
      /\ journal = pre[r]
      /\ NoBackupBy(r)
      /\ ~result[r].applied
      /\ ~tmp[r].exists
      /\ ~mirror[r].exists
      /\ result[r].status = "ok" =>
           /\ result[r].text = WouldBeText(r)
           /\ inp[r].kind \in {"remove", "replace"} => chk[r] = "ok"

\* C5: in read-only mode the journal files stay as they were at start-up, no
\* backup exists, and every request made without dryRun ends with a
\* ValidationError with nothing staged.
C5_ReadOnlyFrame ==
  readOnly =>
    /\ journal = origin
    /\ backups = {}
    /\ \A r \in Reqs :
         Done(r) /\ ~inp[r].dryRun =>
           /\ result[r].status = "error"
           /\ result[r].error = "ValidationError"
           /\ ~staged[r]
           /\ ~tmp[r].exists
           /\ ~mirror[r].exists

C5_Witness ==
  \E r \in Reqs :
    /\ readOnly /\ Done(r) /\ ~inp[r].dryRun /\ inp[r].kind = "import"
    /\ journal["main"].exists

\* C6: a single-file request that staged a copy of the journal ends, by return
\* or by throw, with no staged file left: it was renamed over the journal or
\* deleted.
C6_NoStagedFileLeft ==
  \A r \in Reqs :
    Done(r) /\ SingleFile(inp[r].kind) /\ staged[r] => ~tmp[r].exists

\* C7: a rewrite request that created its mirror directory ends, whatever the
\* outcome, with the mirror directory deleted.
C7_MirrorTornDown ==
  \A r \in Reqs :
    Done(r) /\ inp[r].kind = "rewrite" /\ staged[r] => ~mirror[r].exists

\* C8: when the journal existed and backups are kept, the step that renames the
\* staged copy over the journal is taken only with the backup copy of the
\* journal's current bytes already made by that request; a failed backup copy
\* is therefore never followed by the rename.
C8_BackupBeforeRename ==
  [][\A r \in Reqs :
       LET t == inp[r].target
       IN InFlight(r) /\ SingleFile(inp[r].kind) /\ journal[t].exists /\ ~skipBackup
            /\ journal' # journal =>
          \E b \in backups : b.of = t /\ b.ts = r /\ b.data = journal[t].data]_vars

\* the backup copy of a checked request failed: the journal is as it was
C8_Witness ==
  \E r \in Reqs :
    /\ Done(r) /\ inp[r].kind = "add" /\ chk[r] = "ok" /\ ~inp[r].dryRun
    /\ pre[r]["main"].exists /\ ~skipBackup
    /\ NoBackupBy(r) /\ result[r].status = "error"
    /\ journal = pre[r]

\* C9: a single-file request that committed returns exactly one backup path,
\* of a backup holding the journal's bytes from before the commit, when the
\* journal existed and backups are kept; otherwise it made no backup and
\* returns no backup path.
C9_BackupContentAndPresence ==
  \A r \in Reqs :
    LET t == inp[r].target
    IN Done(r) /\ SingleFile(inp[r].kind) /\ result[r].applied =>
         IF pre[r][t].exists /\ ~skipBackup
         THEN /\ result[r].bks = {[of |-> t, ts |-> r]}
              /\ [of |-> t, ts |-> r, data |-> pre[r][t].data] \in backups
              /\ \A b \in backups : b.ts = r => b.of = t /\ b.data = pre[r][t].data
         ELSE /\ result[r].bks = {}
              /\ NoBackupBy(r)

C9_Witness ==
  \E r \in Reqs :
    /\ Done(r) /\ inp[r].kind = "remove" /\ result[r].applied
    /\ result[r].bks # {} /\ journal # pre[r]

\* C10: when applying the patches of a diff to the mirror throws on a hunk that
\* does not match, every file of the mirror is as it was copied from the
\* journal: no file named by the diff has been written.
C10_PatchAllOrNothing ==
  \A r \in Reqs :
    pc[r] = "catch" /\ loc[r].why = "patch" =>
      mirror[r].files = [f \in Paths |-> IF f \in loc[r].visited THEN journal[f] ELSE Absent]

\* C11: a rewrite request that ends with an error, the commit step included
\* (a backup copy or a copy-back of a later file failing after an earlier file
\* was processed), leaves every original journal file as it was before the
\* request.
C11_RewriteAbortLeavesOriginals ==
  \A r \in Reqs :
    Done(r) /\ inp[r].kind = "rewrite" /\ result[r].status = "error" =>
      journal = pre[r]

\* C12: applying the parsed diff of an edit script (one or more hunks, each
\* with oldStart in the old file's line numbering, in ascending order) to the
\* old file gives exactly the new file.
C12_MultiHunkApply ==
  calc.fn = "patch" /\ calc.phase = "out" =>
    calc.out.ok /\ calc.out.content = calc.new

\* the journals whose mirror copies the diff of request r names
NamedByDiff(r) ==
  LET patches == parseUnifiedDiff(loc[r].diff, WorkspaceRoot(r)).patches
  IN {MirrorFileOf(patches[i].filePath) : i \in 1..Len(patches)}

Under(path, root) ==
  /\ StartsWith(path, root \o <<"/">>)
  /\ \A i \in (Len(root) + 1)..Len(path) : path[i] # ".."

\* C14: when a "+++" header of the diff names a path that does not lie under
\* the mirror's workspaceRoot, parseUnifiedDiff throws, so that nothing is
\* applied and the mirror file is unmodified.
C14_DiffConfinement ==
  calc.fn = "headers" /\ calc.phase = "out"
    /\ (\E i \in 1..Len(calc.diff) :
          calc.diff[i].t = "+++" /\ ~Under(calc.diff[i].path, WorkspaceRoot(1))) =>
      ~calc.out.parsed /\ calc.out.content = calc.content

\* C15 as stated: extract, replace with the extracted text, extract again
\* returns the extracted text, for every file and every valid range.
C15_RoundTripExact ==
  calc.fn = "roundtrip" /\ calc.phase = "out"
    /\ assertRange(splitIntoSegments(calc.content), calc.startLine, calc.endLine) =>
      calc.out.ok /\ calc.out.second = calc.out.first

\* C15: extract, replace with the extracted text t, extract again over the same
\* range succeeds and returns t with every CRLF replaced by LF and a newline
\* appended when t does not end with one; it returns t itself when t has no
\* CRLF and ends with a newline.
C15_RoundTripNormalized ==
  calc.fn = "roundtrip" /\ calc.phase = "out"
    /\ assertRange(splitIntoSegments(calc.content), calc.startLine, calc.endLine) =>
      LET t == calc.out.first
          hasCRLF == \E i \in 1..(Len(t) - 1) : t[i] = CR /\ t[i + 1] = LF
      IN /\ calc.out.ok
         /\ IF ~hasCRLF /\ EndsWithLF(t)
            THEN calc.out.second = t
            ELSE /\ calc.out.second # t
                 /\ calc.out.second = ensureTrailingNewline(normalizeNewlines(t))

C15_Witness ==
  /\ calc.fn = "roundtrip" /\ calc.phase = "out"
  /\ calc.content = <<LF, "a", LF>> /\ calc.startLine = 1 /\ calc.endLine = 2
  /\ calc.out.first = <<LF, "a", LF>> /\ calc.out.second = calc.out.first

\* C16: remove(start, end, collapseFollowingBlank) on a valid range removes the
\* segments start..end and, exactly when the flag is set and the segment after
\* end exists and is whitespace-only, that one segment too, reporting it as
\* trailingBlankRemoved; removedText is the text of segments start..end.
C16_BlankCollapse ==
  LET segs == splitIntoSegments(calc.content)
      st == calc.startLine
      en == calc.endLine
      extra == /\ calc.collapse
               /\ en + 1 <= Len(segs)
               /\ \A i \in 1..Len(segs[en + 1]) : segs[en + 1][i] \in {SP, LF, CR}
      gone == (en - st + 1) + (IF extra THEN 1 ELSE 0)
  IN calc.fn = "remove" /\ calc.phase = "out" /\ assertRange(segs, st, en) =>
       /\ calc.out.ok
       /\ calc.out.trailing = extra
       /\ Len(calc.out.segments) = Len(segs) - gone
       /\ \A i \in 1..(st - 1) : calc.out.segments[i] = segs[i]
       /\ \A i \in st..Len(calc.out.segments) : calc.out.segments[i] = segs[i + gone]
       /\ calc.out.text = Join(SubSeq(segs, st, en))

C16_Witness ==
  /\ calc.fn = "remove" /\ calc.phase = "out" /\ calc.collapse
  /\ calc.content = <<"a", LF, SP>> /\ calc.startLine = 1 /\ calc.endLine = 1
  /\ calc.out.trailing /\ calc.out.segments = <<>> /\ calc.out.text = <<"a", LF>>

\* the text ends with one newline and not with two
EndsWithOneLF(t) ==
  EndsWithLF(t) /\ ~(Len(t) >= 2 /\ t[Len(t) - 1] = LF)

\* C17: the text replace inserts contains no CRLF and ends with exactly one
\* newline, whatever the replacement's line endings and trailing newlines;
\* replace(1, 1, text) on an empty file succeeds and leaves a file ending in
\* exactly one newline.
C17_ReplaceNormalization ==
  calc.fn = "replace" /\ calc.phase = "out"
    /\ assertRange(splitIntoSegments(calc.content), calc.startLine, calc.endLine) =>
      /\ calc.out.ok
      /\ ~\E i \in 1..(Len(calc.out.text) - 1) :
            calc.out.text[i] = CR /\ calc.out.text[i + 1] = LF
      /\ EndsWithOneLF(calc.out.text)
      /\ calc.content = <<>> => EndsWithOneLF(calc.out.content)

\* the number of segments of a file: one per newline, one more for a last line
\* without newline, and one for the empty file
SegmentCount(content) ==
  Cardinality({i \in 1..Len(content) : content[i] = LF})
    + (IF content = <<>> \/ Last(content) # LF THEN 1 ELSE 0)

\* C18: extract, remove and replace fail with a range error exactly when
\* start < 1, end < start or end exceeds the number of segments, and then leave
\* the segments as they were; every other range is accepted; the empty file has
\* exactly one, empty, segment.
C18_RangeValidation ==
  calc.fn \in {"extract", "remove", "replace"} /\ calc.phase = "out" =>
    LET st == calc.startLine
        en == calc.endLine
        bad == st < 1 \/ en < st \/ en > SegmentCount(calc.content)
    IN /\ calc.out.ok = ~bad
       /\ bad => calc.out.content = calc.content
                   /\ Len(calc.out.segments) = SegmentCount(calc.content)
       /\ calc.content = <<>> /\ calc.fn = "extract" => calc.out.segments = << <<>> >>

C18_Witness ==
  /\ calc.fn = "remove" /\ calc.phase = "out"
  /\ calc.content = <<"a", LF>> /\ calc.startLine = 1 /\ calc.endLine = 2
  /\ ~calc.out.ok /\ calc.out.segments = << <<"a", LF>> >>

\* C19: after a successful append of transaction text T to a journal with prior
\* content C (empty when the journal did not exist) the journal holds
\* C + sep + rtrim(T) + newline, with sep empty for an empty C, one newline
\* when C ends with a newline, and two newlines otherwise.
C19_AppendResult ==
  \A r \in Reqs :
    Done(r) /\ inp[r].kind = "add" /\ result[r].applied =>
      LET prior == IF pre[r]["main"].exists THEN pre[r]["main"].data ELSE <<>>
          sep == IF prior = <<>> THEN <<>>
                 ELSE IF prior[Len(prior)] = LF THEN <<LF>> ELSE <<LF, LF>>
      IN /\ journal["main"].exists
         /\ journal["main"].data = prior \o sep \o trimEnd(inp[r].text) \o <<LF>>
         /\ result[r].text = trimEnd(inp[r].text)

C19_Witness ==
  \E r \in Reqs :
    /\ Done(r) /\ inp[r].kind = "add" /\ result[r].applied
    /\ pre[r]["main"].data = <<"a", LF, "b">> /\ inp[r].text = <<"c", LF, LF>>
    /\ journal["main"].data = <<"a", LF, "b", LF, LF, "c", LF>>


\* what a request's staged copy holds after its mutation, computed from the
\* original it was copied from and the request's own input alone
StagedFrom(orig, i) ==
  LET data == IF orig.exists THEN orig.data ELSE <<>>
  IN IF i.kind = "add"
     THEN data \o AppendEntry(orig.exists, data, i.text)
     ELSE Join(EditorApply(i, splitIntoSegments(data)).segments)

\* C20: lost update. When two requests on the same journal both staged their
\* copy from the same original and the first has committed, the commit of the
\* second leaves the journal holding exactly the second's staged content (the
\* original with the second's change alone, the first's change absent), and
\* both requests report success: no conflict is raised (last writer wins).
C20_LastWriterWins ==
  [][\A r \in Pair, q \in Pair :
       (/\ q # r
        /\ pc[q] = "done" /\ result[q].applied
        /\ pc[r] = "rename" /\ pc'[r] = "done" /\ result'[r].applied
        /\ pre[q] = pre[r]
        /\ inp[q].target = inp[r].target)
       => /\ journal'[inp[r].target] = tmp[r]
          /\ journal'[inp[r].target] = File(StagedFrom(pre[r][inp[r].target], inp[r]))
          /\ chk[q] = "ok" /\ chk[r] = "ok"
          /\ result[q].status = "ok" /\ result'[q] = result[q]
          /\ result'[r].status = "ok" /\ result'[r].error = ""]_vars

\* an append and a second request staged from the same journal and both
\* committed; the journal holds the original with the second change only, not
\* what the two requests give one after the other
C20_Witness ==
  \E r \in Pair, q \in Pair :
    /\ q # r
    /\ pc[q] = "done" /\ result[q].applied /\ result[q].status = "ok"
    /\ pc[r] = "done" /\ result[r].applied /\ result[r].status = "ok"
    /\ inp[q].kind = "add"
    /\ pre[q] = pre[r]
    /\ journal["main"].data = StagedFrom(pre[r]["main"], inp[r])
    /\ journal["main"].data
         # StagedFrom(File(StagedFrom(pre[q]["main"], inp[q])), inp[r])


RECURSIVE ReachFrom(_, _)
\* the files reachable from a set of files through the include graph
ReachFrom(seen, graph) ==
  LET more == seen \cup {t \in MirrorFiles : \E f \in seen : <<f, t>> \in graph}
  IN IF more = seen THEN seen ELSE ReachFrom(more, graph)

NoDuplicate(seq) == \A i, j \in 1..Len(seq) : seq[i] = seq[j] => i = j

\* the walk so far: no file copied twice, every copied file in fileMap; when
\* createRewriteWorkspace returns, fileMap has exactly the reachable files
WalkSound ==
  calc.fn = "mirror" =>
    /\ NoDuplicate(calc.out.copied)
    /\ {p[1] : p \in calc.out.fileMap} = {calc.out.copied[i] : i \in 1..Len(calc.out.copied)}
    /\ calc.phase = "out" /\ calc.out.ok =>
         /\ RootFile \in {p[1] : p \in calc.out.fileMap}
         /\ {p[1] : p \in calc.out.fileMap} = ReachFrom({RootFile}, calc.graph)

\* C21: mirror construction ends on every include graph, cycles and
\* self-includes included; no canonical path is copied twice, and when it
\* returns fileMap holds every file reachable from the root through include
\* directives, the root included.
C21_MirrorWalkTerminates ==
  /\ []WalkSound
  /\ <>(calc.phase = "out")

\* a walk that returned on a graph where the root and a second file include
\* each other and the second file includes itself
C21_Witness ==
  /\ calc.fn = "mirror" /\ calc.phase = "out" /\ calc.out.ok
  /\ \E f \in MirrorFiles \ {RootFile} :
       /\ <<RootFile, f>> \in calc.graph
       /\ <<f, RootFile>> \in calc.graph
       /\ <<f, f>> \in calc.graph
       /\ f \in calc.out.visited


\* C30: after createRewriteWorkspace, distinct mirrored originals have
\* distinct mirror paths (files outside the root directory included) and
\* copyToOriginal[fileMap[f]] = f for every mirrored original f.
C30_MirrorMapsInverse ==
  calc.fn = "mirror" /\ calc.phase = "out" /\ calc.out.ok =>
    LET originals == {p[1] : p \in calc.out.fileMap}
    IN /\ \A f, g \in originals :
            f # g => MapGet(calc.out.fileMap, f) # MapGet(calc.out.fileMap, g)
       /\ \A f \in originals :
            MapGet(calc.out.copyToOriginal, MapGet(calc.out.fileMap, f)) = f


\* C22: normalizeEntryForComparison is idempotent, and a text, the same text
\* with its CRLF line endings written as LF, and the same text with one final
\* newline added when it has none all normalize to the same string.
C22_ComparisonNormalization ==
  calc.fn = "normalize" /\ calc.phase = "out" =>
    /\ EndsWithLF(calc.out.once)
    /\ calc.out.twice = calc.out.once
    /\ calc.out.unix = calc.out.once
    /\ ~EndsWithLF(calc.content) => calc.out.more = calc.out.once


\* C23: in read-only mode every web instance is started with --allow view
\* whatever level the request named; otherwise the level is edit only when
\* edit was requested, view only when view was requested, add in every other
\* case.
C23_WebAccessLevel ==
  \A i \in Webs :
    child[i].spawned =>
      /\ child[i].args = child[i].allow
      /\ readOnly => child[i].args = "view"
      /\ ~readOnly =>
           /\ child[i].args = "edit" <=> child[i].requestedAllow = "edit"
           /\ child[i].args = "view" <=> child[i].requestedAllow = "view"
           /\ child[i].args = "add" <=> child[i].requestedAllow \in {"add", "none"}

\* a read-only server has started and registered an instance requested with edit
C23_Witness ==
  \E i \in Webs :
    /\ readOnly /\ child[i].registered /\ i \in list
    /\ child[i].requestedAllow = "edit" /\ child[i].args = "view"


\* C24: list() returns exactly the registered instances whose child has
\* emitted neither exit nor error and that no stop has removed: an instance is
\* listed from the moment register returns and no longer once its child has
\* emitted exit or error.
C24_RegistryMembership ==
  list = {i \in Webs : /\ child[i].registered
                       /\ ~child[i].exited /\ ~child[i].errored
                       /\ child[i].dropped # "stop"}

\* a registered instance that left the list when its child, which no stop
\* call had touched, emitted error
C24_Witness ==
  \E i \in Webs :
    /\ child[i].registered /\ child[i].errored /\ ~child[i].exited
    /\ child[i].dropped = "no" /\ ~child[i].killed
    /\ i \notin list
    /\ \A c \in Stops : stops[c].inst # i


\* a stopInstance call that went past the killed shortcut
Waited(c) == stops[c].promise # "none" /\ stops[c].by \notin {"missing", "killed"}
Settled(c) == stops[c].promise \in {"resolved", "rejected"}

\* the promise of a call and its first event agree
DecidedByFirst(c) ==
  /\ stops[c].promise = "pending" <=> stops[c].first = "none"
  /\ Settled(c) =>
       /\ stops[c].by = stops[c].first
       /\ stops[c].promise = "resolved" <=> stops[c].first = "exit"
       /\ stops[c].first \in {"exit", "error", "timeout", "nosignal"}
       /\ ~stops[c].timer /\ ~stops[c].onExit /\ ~stops[c].onError
  /\ stops[c].promise = "pending" =>
       stops[c].timer /\ stops[c].onExit /\ stops[c].onError

\* C28: for a registered instance whose child is not already killed, the
\* first of child exit, child error, timer expiry and failure to send the
\* signal decides the call: exit resolves, the other three reject; later
\* events change nothing; a pending call always has its timer running, so it
\* settles no later than the timeout; once settled, its listeners and timer
\* are removed.
C28_StopSettlesOnce ==
  /\ [](\A c \in Stops : Waited(c) => DecidedByFirst(c))
  /\ [][\A c \in Stops :
          Waited(c) /\ Settled(c) =>
            /\ stops'[c].promise = stops[c].promise
            /\ stops'[c].by = stops[c].by
            /\ stops'[c].timer = stops[c].timer
            /\ stops'[c].onExit = stops[c].onExit
            /\ stops'[c].onError = stops[c].onError]_vars

\* a call rejected by its timer, whose child exited afterwards
C28_Witness ==
  \E c \in Stops :
    /\ Waited(c) /\ stops[c].promise = "rejected" /\ stops[c].by = "timeout"
    /\ child[stops[c].inst].exited
    /\ stops[c].calls = 1


\* C29: an instance leaves the registry, and a stopInstance call resolves for
\* it, only when its child has emitted exit or error; a second stopInstance
\* after one that timed out on a running child neither succeeds nor drops the
\* instance.
C29_NeverForgetsLiveProcess ==
  /\ \A i \in Webs :
       child[i].registered /\ i \notin list => child[i].exited \/ child[i].errored
  /\ \A c \in Stops :
       stops[c].promise = "resolved" =>
         child[stops[c].inst].exited \/ child[stops[c].inst].errored


\* the cursor (0-based index into the file's lines) when line k of a hunk is
\* reached: the start index plus the context and remove lines before it
CursorAt(hunk, k) ==
  (IF hunk.oldStart - 1 > 0 THEN hunk.oldStart - 1 ELSE 0)
    + Cardinality({j \in 1..(k - 1) : hunk.lines[j].type # "add"})

\* every context and remove line finds a line of the file at the cursor, and
\* that line equals its content
HunkVerifies(lines, hunk) ==
  \A k \in 1..Len(hunk.lines) :
    hunk.lines[k].type # "add" =>
      /\ CursorAt(hunk, k) + 1 <= Len(lines)
      /\ lines[CursorAt(hunk, k) + 1] = hunk.lines[k].content

\* C25: applyHunk accepts a context or remove line only if the file has a
\* line at the cursor and that line equals the hunk line's content; otherwise,
\* also when the cursor is past the last line, it aborts with a patch
\* mismatch. Add lines do not advance the cursor.
C25_HunkVerification ==
  calc.fn = "hunk" /\ calc.phase = "out" =>
    calc.out.ok <=> HunkVerifies(calc.content, calc.diff)


\* C26: replace(start, end, text) changes only the addressed range: the
\* segments before start and after end are in the result unchanged and in
\* order, a blank segment after the range is kept, and the content is prefix
\* + normalized text (the insertedText replace returns) + suffix.
C26_ReplaceFrame ==
  calc.fn = "replace" /\ calc.phase = "out" /\ calc.out.ok =>
    LET segs == splitIntoSegments(calc.content)
        before == SubSeq(segs, 1, calc.startLine - 1)
        after == SubSeq(segs, calc.endLine + 1, Len(segs))
        res == calc.out.segments
    IN /\ Len(res) > Len(before) + Len(after)
       /\ SubSeq(res, 1, Len(before)) = before
       /\ SubSeq(res, Len(res) - Len(after) + 1, Len(res)) = after
       /\ calc.out.content = Join(before) \o calc.out.text \o Join(after)

\* a replace whose range is followed by a blank segment and preceded by a
\* segment: both are still there
C26_Witness ==
  /\ calc.fn = "replace" /\ calc.phase = "out" /\ calc.out.ok
  /\ LET segs == splitIntoSegments(calc.content)
     IN /\ calc.startLine = 2
        /\ calc.endLine < Len(segs)
        /\ isBlank(segs[calc.endLine + 1])
        /\ calc.out.segments[Len(calc.out.segments)] = segs[Len(segs)]
        /\ calc.out.segments[1] = segs[1]


\* C27: no torn reads. Every step that changes an original journal path of a
\* mutation (append, remove, replace, import, the copy-back of a rewrite)
\* puts the complete staged content there in that one step, so a process
\* reading the path sees the content before the operation or the content
\* after it, never a partly written file.
C27_NoTornReads ==
  [][\A f \in Paths :
       journal'[f] # journal[f] =>
         \E r \in Reqs :
           /\ InFlight(r)
           /\ journal'[f] = IF inp[r].kind = "rewrite" THEN mirror[r].files[f]
                            ELSE tmp[r]]_vars
====
